---- MODULE Spec2Model ----
(***************************************************************************)
(* Model of the whatawhat-lib sensor core:                                 *)
(*   - SimpleCache   (src/src/simple_cache.rs), specification SpecCache    *)
(*   - idle Tracker  (src/src/idle.rs),         specification SpecTracker  *)
(*   - backend selection and construction (lib.rs, gnome.rs, kde.rs,       *)
(*     wayland_idle.rs, wayland_wlr.rs),        specification SpecConstruct*)
(*   - GNOME poll    (src/src/gnome.rs),        specification SpecGnome    *)
(*   - idle pump     (src/src/wayland_idle.rs), specification SpecPump     *)
(*   - KDE callback and read (src/src/kde.rs),  specification SpecKde      *)
(*   - toplevel table and window pump (src/src/wayland_wlr.rs),            *)
(*                                              specification SpecWindow   *)
(*   - both Wayland pumps,                      specification SpecPumps    *)
(*   - macOS helper reader (src/src/macos.rs),  specification SpecMacos    *)
(*   - locks of the shared cells, statement by statement,                  *)
(*                                              specification SpecLocks    *)
(*   - X11 connection (src/src/x11.rs),         specification SpecX11      *)
(*   - raw idle-time comparisons (win.rs, gnome.rs, x11.rs),               *)
(*                                              specification SpecRaw      *)
(* Times are integers.  An Option<T> is the empty set (None) or a          *)
(* singleton (Some(x)).                                                    *)
(***************************************************************************)
EXTENDS Integers, FiniteSets, Sequences, TLC

None == {}
Some(x) == {x}
Unwrap(o) == CHOOSE x \in o : TRUE

(***************************************************************************)
(* Bounds of the model                                                     *)
(***************************************************************************)
\* latest SystemTime the cache model observes
MaxClock == 2
\* largest configured ttl of the cache
MaxTtl == 2
\* largest configured max_size of the cache
MaxSize == 1

\* model time units per second (the resolution of a TimeDelta in the model)
UnitsPerSecond == 2
\* latest `now` handed to the tracker, in time units
MaxNow == 4
\* largest seconds_since_input handed to get_with_last_input
MaxSeconds == 2
\* largest idle_timeout of the tracker, in time units
MaxTimeout == 4

\* turns of the construction loop of GnomeWindowWatcher::new
GnomeAttempts == 3
\* seconds slept after a failed turn of that loop
GnomeBackoffSeconds == 3

\* ttl in seconds and max_size of the GNOME watcher's desktop_info_cache
GnomeCacheTtl == 60
GnomeCacheMaxSize == 1000
\* seconds between two instants the GNOME model observes, and how many
GnomeTick == 30
MaxGnomeTicks == 2

\* latest Utc::now() the idle pump observes, in time units
MaxPumpNow == 2
\* largest idle timeout of the pump's tracker, in time units
MaxPumpTimeout == 1
\* most events queued between two roundtrips
MaxPending == 2

\* ttl in seconds of the KDE callback's cache of desktop info
KdeCacheTtl == 86400
\* max_size of the KDE callback's cache of desktop info
KdeCacheMaxSize == 1000
\* the KDE callback observes SystemTime from 0 to MaxKdeTicks ttl periods
MaxKdeTicks == 1
\* focus changes KWin reports in one run
MaxCallbacks == 2

\* most toplevel events queued between two roundtrips of the window pump
MaxWlPending == 1
\* most toplevel events the roundtrip of WaylandWindowWatcherInner::new
\* dispatches
MaxInitEvents == 3

\* most helper output lines buffered in the pipe
MaxLines == 2

\* most X11 connections established in one run
MaxConnects == 3
\* the widths, in bits, standing for the 32 bits of a DWORD tick and the 64
\* bits of the uptime tick count
DwordBits == 3
TickBits == 5
Keys == {"a", "b"}
Values == {"v1", "v2"}

VARIABLES
    \* ---- SimpleCache (simple_cache.rs:8-11)
    cache,          \* HashMap<G, CacheEntry<T>>: a function on the present keys
    config,         \* CacheConfig {ttl, max_size}
    clock,          \* the latest value SystemTime::now() has returned
    cache_ret,      \* the value returned by the latest get
    cache_op,       \* the latest call: its name, arguments and clock readings
    last_set        \* per key, the latest set: its data, its timestamp and the
                    \* timestamp of the entry it replaced (None: never set)
VARIABLES
    \* ---- Tracker (idle.rs:5-12)
    tracker,        \* the Tracker: last_input_time, is_idle, is_changed,
                    \* idle_timeout, idle_end
    status,         \* the Status returned by the latest read (None: no read yet)
    tracker_op,     \* the latest call: its name and arguments
    since_mark      \* the latest push call, the reads made since (capped at 2)
                    \* and whether one of them was a get_with_last_input

VARIABLES
    \* ---- GenericWindowManager::new (lib.rs:76-167)
    features,       \* the Linux cargo features the crate was built with
    env,            \* the session environment: is it X11, is the desktop GNOME
    pc,             \* the statement new, or the constructor it called, is at
    idx,            \* the position in Order of the cfg block entered last
    tried,          \* the candidates whose constructor was called, in order
    outcome,        \* per candidate, how its constructor ended
    effects,        \* <<candidate, effect>>: connections opened, remote calls
                    \* with a side effect made, threads and tasks spawned
    attempts,       \* the Result of each turn of the GNOME loop so far
    slept,          \* seconds the GNOME loop has slept
    warned,         \* the candidates whose failure warn! has logged
    returned,       \* what new returned: Ok(inner), Err or a panic
    kwin_script     \* KWinScript.is_loaded, its temporary file, and whether
                    \* KWin has the script registered and running

VARIABLES
    \* ---- GnomeWindowWatcher (gnome.rs:16-25) behind the facade
    gnome_watcher,      \* last_title, last_app_id, desktop_info_cache
    desktop_entries,    \* the app ids LinuxDesktopInfo has an entry for
    gnome_clock,        \* the latest value SystemTime::now() has returned
    gnome_ret,          \* the Result of the latest poll
    gnome_op            \* the latest poll: the outcome of its remote call,
                        \* the calls it made, whether the poll before it failed

VARIABLES
    \* ---- IdleWatcherRunner (wayland_idle.rs:109-113) and its thread
    idle_state,             \* WatcherState.idle_state, the pump's Tracker
    pending,                \* idle-notification events not yet dispatched
    native_idle,            \* whether the compositor holds the seat idle
    current_idle_status,    \* the shared cell: Option<Status>
    pump_pc,                \* the pump thread: iterate, sleep or exited
    stop_signal,            \* whether Drop has sent the stop signal
    pump_clock,             \* the latest value Utc::now() has returned
    is_idle_ret,            \* the Result of the latest foreground is_idle
    is_idle_op,             \* the latest foreground call, and whether the
                            \* cell had been published when it read it
    pump_op                 \* the pump's latest iteration and the number of
                            \* values it published since the stop signal

VARIABLES
    \* ---- KdeWindowManager and its KWin callback (kde.rs:196-256)
    active_window,      \* the record behind the tokio Mutex; every field
                        \* carries the callback invocation that assigned it
    kde_lock,           \* who holds the Mutex: free, callback or reader
    callback,           \* the notify_active_window invocation in flight
    reader,             \* the get_active_window_data call in flight
    kde_cache,          \* ActiveWindowInterface.desktop_info_cache
    kde_entries,        \* app ids the desktop-entry provider knows
    kde_clock,          \* the latest value SystemTime::now() has returned
    invocations,        \* callback invocations started so far
    kde_ret             \* the latest snapshot returned to the foreground
VARIABLES
    \* ---- WaylandWindowWatcher and its thread (wayland_wlr.rs:176-236)
    toplevel_state,         \* ToplevelState: windows, current_window_id
    wl_pending,             \* toplevel events not yet dispatched
    wl_finished,            \* the manager's Finished event was dispatched
    current_window_data,    \* the shared cell: Option<ActiveWindowData>
    window_pc,              \* the pump thread: iterate, sleep, exited, panicked
    window_stop,            \* whether Drop has sent the stop signal
    window_ret,             \* the Result of the latest foreground poll
    window_op,              \* the pump's latest iteration and the number of
                            \* values it published since the stop signal
    window_poll             \* the latest foreground poll and what held when
                            \* it was made
VARIABLES
    \* ---- MacosRunner::SeparateProcess and its reader thread
    \*      (macos.rs:156-210)
    mac_pipe,           \* helper output lines the reader has not yet read
    child,              \* the osascript process: running or killed
    reader_pc,          \* the reader thread: read, check, publish, exited,
                        \* panicked
    mac_line,           \* the item `line` the reader thread holds
    mac_stop,           \* the stop channel: none, sent or received
    current_app_info,   \* the shared cell: Option<AppInfo>
    mac_op              \* the reader's latest step and the number of records
                        \* it published since the stop signal
VARIABLES
    \* ---- the threads that share a cell, statement by statement
    thread_at,          \* for every thread, the statement it is about to run
                        \* (0: outside its loop body or call)
    lock_holder,        \* for every shared-cell lock, the thread holding it
    fg_call             \* the poll the foreground thread is making
VARIABLES
    \* ---- the X11 backend's connection
    x11_data,           \* LinuxWindowManager.data: the WindowData held, if any
    x11_broken,         \* the connections whose has_error() is an error
    x11_connects,       \* the connections established so far
    x11_up,             \* whether the X server accepts a connection
    x11_op              \* the last poll: its name, the connection it ran on,
                        \* how it returned, and a bit that flips at each poll
VARIABLES
    \* ---- the backends that compare a raw idle time
    raw_op              \* the last call: its name, its inputs and its result
cacheVars == <<cache, config, clock, cache_ret, cache_op, last_set>>
trackerVars == <<tracker, status, tracker_op, since_mark>>
constructVars == <<features, env, pc, idx, tried, outcome, effects, attempts,
                   slept, warned, returned, kwin_script>>

gnomeVars == <<gnome_watcher, desktop_entries, gnome_clock, gnome_ret, gnome_op>>

pumpVars == <<idle_state, pending, native_idle, current_idle_status, pump_pc,
              stop_signal, pump_clock, is_idle_ret, is_idle_op, pump_op>>

kdeVars == <<active_window, kde_lock, callback, reader, kde_cache,
             kde_entries, kde_clock, invocations, kde_ret>>
windowVars == <<toplevel_state, wl_pending, wl_finished, current_window_data,
                window_pc, window_stop, window_ret, window_op, window_poll>>
macosVars == <<mac_pipe, child, reader_pc, mac_line, mac_stop,
               current_app_info, mac_op>>
locksVars == <<thread_at, lock_holder, fg_call>>
x11Vars == <<x11_data, x11_broken, x11_connects, x11_up, x11_op>>
rawVars == <<raw_op>>
vars == <<cacheVars, trackerVars, constructVars, gnomeVars, pumpVars,
         kdeVars, windowVars, macosVars, locksVars, x11Vars, rawVars>>

\* what a step of each component leaves alone
notCache == <<trackerVars, constructVars, gnomeVars, pumpVars, kdeVars,
    windowVars, macosVars, locksVars, x11Vars, rawVars>>
notTracker == <<cacheVars, constructVars, gnomeVars, pumpVars, kdeVars,
    windowVars, macosVars, locksVars, x11Vars, rawVars>>
notConstruct == <<cacheVars, trackerVars, gnomeVars, pumpVars, kdeVars,
    windowVars, macosVars, locksVars, x11Vars, rawVars>>
notGnome == <<cacheVars, trackerVars, constructVars, pumpVars, kdeVars,
    windowVars, macosVars, locksVars, x11Vars, rawVars>>
notPump == <<cacheVars, trackerVars, constructVars, gnomeVars, kdeVars,
    windowVars, macosVars, locksVars, x11Vars, rawVars>>
notKde == <<cacheVars, trackerVars, constructVars, gnomeVars, pumpVars,
    windowVars, macosVars, locksVars, x11Vars, rawVars>>
notWindow == <<cacheVars, trackerVars, constructVars, gnomeVars, pumpVars,
    kdeVars, macosVars, locksVars, x11Vars, rawVars>>
notMacos == <<cacheVars, trackerVars, constructVars, gnomeVars, pumpVars,
    kdeVars, windowVars, locksVars, x11Vars, rawVars>>
notLocks == <<cacheVars, trackerVars, constructVars, gnomeVars, pumpVars,
    kdeVars, windowVars, macosVars, x11Vars, rawVars>>
notX11 == <<cacheVars, trackerVars, constructVars, gnomeVars, pumpVars,
    kdeVars, windowVars, macosVars, locksVars, rawVars>>
notRaw == <<cacheVars, trackerVars, constructVars, gnomeVars, pumpVars,
    kdeVars, windowVars, macosVars, locksVars, x11Vars>>

(***************************************************************************)
(* SimpleCache                                                             *)
(***************************************************************************)

\* SystemTime::elapsed of a timestamp, read when the clock shows `now`
elapsed(timestamp, now) == now - timestamp

\* CacheEntry { data, timestamp }
CacheEntry(data, timestamp) == [data |-> data, timestamp |-> timestamp]

\* HashMap::insert
insert(c, key, entry) ==
    [k \in DOMAIN c \cup {key} |-> IF k = key THEN entry ELSE c[k]]

\* HashMap::remove
remove(c, key) == [k \in DOMAIN c \ {key} |-> c[k]]

\* SimpleCache::cleanup: retain the entries whose age is below ttl
cleanup(c, cfg, now) ==
    [k \in {j \in DOMAIN c : elapsed(c[j].timestamp, now) < cfg.ttl} |-> c[k]]

\* SimpleCache::get with `<` written as `<=`
get_le(c, cfg, key, now) ==
    IF key \notin DOMAIN c
    THEN [cache |-> c, ret |-> None]
    ELSE IF elapsed(c[key].timestamp, now) <= cfg.ttl
         THEN [cache |-> c, ret |-> Some(c[key].data)]
         ELSE [cache |-> remove(c, key), ret |-> None]

\* SimpleCache::get that sweeps the whole table when it meets an expired entry
get_sweeping(c, cfg, key, now) ==
    IF key \notin DOMAIN c
    THEN [cache |-> c, ret |-> None]
    ELSE IF elapsed(c[key].timestamp, now) < cfg.ttl
         THEN [cache |-> c, ret |-> Some(c[key].data)]
         ELSE [cache |-> cleanup(c, cfg, now), ret |-> None]

\* SimpleCache::get: the table after the call and the value returned
get(c, cfg, key, now) ==
    IF key \notin DOMAIN c
    THEN [cache |-> c, ret |-> None]
    ELSE IF elapsed(c[key].timestamp, now) < cfg.ttl
         THEN [cache |-> c, ret |-> Some(c[key].data)]
         ELSE [cache |-> remove(c, key), ret |-> None]

\* SimpleCache::set that sweeps already when the table has reached max_size
set_ge(c, cfg, key, data, now, sweep) ==
    LET inserted == insert(c, key, CacheEntry(data, now))
    IN  IF Cardinality(DOMAIN inserted) >= cfg.max_size
        THEN cleanup(inserted, cfg, sweep)
        ELSE inserted

\* SimpleCache::set that keeps the timestamp of an entry it overwrites
set_keep_timestamp(c, cfg, key, data, now, sweep) ==
    LET stamp == IF key \in DOMAIN c THEN c[key].timestamp ELSE now
        inserted == insert(c, key, CacheEntry(data, stamp))
    IN  IF Cardinality(DOMAIN inserted) > cfg.max_size
        THEN cleanup(inserted, cfg, sweep)
        ELSE inserted

\* SimpleCache::set: the entry is stamped at `now`; the sweep, when it runs,
\* reads the clock at `sweep` (at or after `now`)
set(c, cfg, key, data, now, sweep) ==
    LET inserted == insert(c, key, CacheEntry(data, now))
    IN  IF Cardinality(DOMAIN inserted) > cfg.max_size
        THEN cleanup(inserted, cfg, sweep)
        ELSE inserted

\* SimpleCache::new
CacheInit ==
    /\ cache = << >>
    /\ config \in [ttl : 0..MaxTtl, max_size : 0..MaxSize]
    /\ clock = 0
    /\ cache_ret = None
    /\ cache_op = [op |-> "new", key |-> "a", data |-> "v1", now |-> 0,
                   sweep |-> 0, present |-> FALSE, removed |-> {}]
    /\ last_set = [k \in Keys |-> None]

\* a call of get(key) that reads the clock at `now`
CacheGet ==
    \E key \in Keys, now \in clock..MaxClock :
        LET r == get(cache, config, key, now)
        IN  /\ cache' = r.cache
            /\ cache_ret' = r.ret
            /\ clock' = now
            /\ cache_op' = [op |-> "get", key |-> key, data |-> "v1", now |-> now,
                            sweep |-> now, present |-> key \in DOMAIN cache,
                            removed |-> DOMAIN cache \ DOMAIN r.cache]
            /\ UNCHANGED <<config, last_set, notCache>>

\* a call of set(key, data) that stamps the entry at `now` and sweeps at `sweep`
CacheSet ==
    \E key \in Keys, data \in Values, now \in clock..MaxClock :
        \E sweep \in now..MaxClock :
            LET c2 == set(cache, config, key, data, now, sweep)
                swept == Cardinality(DOMAIN cache \cup {key}) > config.max_size
            IN  /\ cache' = c2
                /\ clock' = IF swept THEN sweep ELSE now
                /\ cache_op' = [op |-> "set", key |-> key, data |-> data, now |-> now,
                                sweep |-> IF swept THEN sweep ELSE now,
                                present |-> key \in DOMAIN cache,
                                removed |-> (DOMAIN cache \cup {key}) \ DOMAIN c2]
                /\ last_set' = [last_set EXCEPT ![key] =
                       Some([data |-> data, timestamp |-> now,
                             replaced |-> IF key \in DOMAIN cache
                                          THEN Some(cache[key].timestamp)
                                          ELSE None])]
                /\ UNCHANGED <<config, cache_ret, notCache>>

CacheNext == CacheGet \/ CacheSet

(***************************************************************************)
(* Idle Tracker                                                            *)
(***************************************************************************)

Max2(a, b) == IF a >= b THEN a ELSE b

\* TimeDelta::seconds
seconds(n) == n * UnitsPerSecond

\* TimeDelta::num_seconds: the whole seconds of a duration, truncated toward 0
num_seconds(d) ==
    IF d >= 0 THEN d \div UnitsPerSecond ELSE -((-d) \div UnitsPerSecond)

\* Tracker::new
new(now, idle_timeout) ==
    [last_input_time |-> now,
     is_idle |-> FALSE,
     is_changed |-> FALSE,
     idle_timeout |-> idle_timeout,
     idle_end |-> None]

\* Status::Idle
Idle(changed, last_input_time, duration) ==
    [kind |-> "Idle", changed |-> changed,
     last_input_time |-> last_input_time, duration |-> duration]

\* Status::Active
Active(changed, last_input_time) ==
    [kind |-> "Active", changed |-> changed, last_input_time |-> last_input_time]

\* Tracker::set_idle that does not latch the change
set_idle_no_latch(self, is_idle) == [self EXCEPT !.is_idle = is_idle]

\* Tracker::set_idle
set_idle(self, is_idle) ==
    [self EXCEPT !.is_idle = is_idle, !.is_changed = TRUE]

\* Tracker::mark_not_idle
mark_not_idle(self, now) ==
    [set_idle([self EXCEPT !.last_input_time = now], FALSE)
        EXCEPT !.idle_end = Some(now)]

\* Tracker::mark_idle that stamps last_input_time with its argument
mark_idle_stamps(self, now) ==
    set_idle([self EXCEPT !.last_input_time = now], TRUE)

\* Tracker::mark_idle
mark_idle(self, now) == set_idle(self, TRUE)

\* Tracker::get_status that leaves the change latch set
get_status_keep_latch(self, now) ==
    [self |-> self,
     status |-> IF self.is_idle
                THEN Idle(self.is_changed, self.last_input_time,
                          now - self.last_input_time)
                ELSE Active(self.is_changed, self.last_input_time)]

\* Tracker::get_status: the tracker after the call and the Status returned
get_status(self, now) ==
    LET result ==
            IF self.is_changed
            THEN IF self.is_idle
                 THEN Idle(self.is_changed, self.last_input_time,
                           now - self.last_input_time)
                 ELSE Active(self.is_changed, self.last_input_time)
            ELSE IF self.is_idle
                 THEN Idle(self.is_changed, self.last_input_time,
                           now - self.last_input_time)
                 ELSE Active(self.is_changed, self.last_input_time)
    IN  [self |-> [self EXCEPT !.is_changed = FALSE], status |-> result]

\* Tracker::get_with_last_input with the tie counted as active
get_with_last_input_gt(self, now, seconds_since_input) ==
    LET time_since_input == seconds(seconds_since_input)
        s1 == [self EXCEPT !.last_input_time = now - time_since_input]
        s2 == IF s1.is_idle
                 /\ seconds_since_input <= num_seconds(s1.idle_timeout)
              THEN set_idle(s1, FALSE)
              ELSE IF ~s1.is_idle
                      /\ seconds_since_input > num_seconds(s1.idle_timeout)
                   THEN set_idle(s1, TRUE)
                   ELSE s1
    IN  get_status(s2, now)

\* Tracker::get_with_last_input (idle_timeout >= 0: the conversion of its
\* whole seconds to u64 succeeds)
get_with_last_input(self, now, seconds_since_input) ==
    LET time_since_input == seconds(seconds_since_input)
        s1 == [self EXCEPT !.last_input_time = now - time_since_input]
        s2 == IF s1.is_idle
                 /\ seconds_since_input < num_seconds(s1.idle_timeout)
              THEN set_idle(s1, FALSE)
              ELSE IF ~s1.is_idle
                      /\ seconds_since_input >= num_seconds(s1.idle_timeout)
                   THEN set_idle(s1, TRUE)
                   ELSE s1
    IN  get_status(s2, now)

\* Tracker::get_reactive that clamps to now - idle_timeout only
get_reactive_no_idle_end(self, now) ==
    LET s1 == IF ~self.is_idle
              THEN [self EXCEPT !.last_input_time = now - self.idle_timeout]
              ELSE self
    IN  get_status(s1, now)

\* Tracker::get_reactive that clamps last_input_time when idle too
get_reactive_clamp_idle(self, now) ==
    get_status([self EXCEPT !.last_input_time =
                    Max2(self.last_input_time, now - self.idle_timeout)], now)

\* Tracker::get_reactive that turns idle by itself once idle_timeout has
\* passed since the last input
get_reactive_times_out(self, now) ==
    get_status(IF ~self.is_idle /\ now - self.last_input_time >= self.idle_timeout
               THEN set_idle(self, TRUE) ELSE self,
               now)

\* Tracker::get_reactive that leaves last_input_time where it is
get_reactive_unclamped(self, now) == get_status(self, now)

\* Tracker::get_reactive
get_reactive(self, now) ==
    LET s1 == IF ~self.is_idle
              THEN LET clamped == [self EXCEPT !.last_input_time =
                                      Max2(self.last_input_time,
                                           now - self.idle_timeout)]
                   IN  IF clamped.idle_end # None
                          /\ clamped.last_input_time < Unwrap(clamped.idle_end)
                       THEN [clamped EXCEPT !.last_input_time =
                                                Unwrap(clamped.idle_end)]
                       ELSE clamped
              ELSE self
    IN  get_status(s1, now)

Times == 0..MaxNow

Bump(n) == IF n < 2 THEN n + 1 ELSE 2

\* Tracker::new(now, idle_timeout)
TrackerInit ==
    /\ \E now \in Times, idle_timeout \in 0..MaxTimeout :
           /\ tracker = new(now, idle_timeout)
           /\ tracker_op = [op |-> "new", now |-> now, seconds |-> 0]
    /\ status = None
    /\ since_mark = [mark |-> "none", reads |-> 0, polled |-> FALSE]

\* a call of mark_not_idle(now)
MarkNotIdle ==
    \E now \in Times :
        /\ tracker' = mark_not_idle(tracker, now)
        /\ tracker_op' = [op |-> "mark_not_idle", now |-> now, seconds |-> 0]
        /\ since_mark' = [mark |-> "not_idle", reads |-> 0, polled |-> FALSE]
        /\ UNCHANGED <<status, notTracker>>

\* a call of mark_idle(now)
MarkIdle ==
    \E now \in Times :
        /\ tracker' = mark_idle(tracker, now)
        /\ tracker_op' = [op |-> "mark_idle", now |-> now, seconds |-> 0]
        /\ since_mark' = [mark |-> "idle", reads |-> 0, polled |-> FALSE]
        /\ UNCHANGED <<status, notTracker>>

\* a call of get_with_last_input(now, seconds_since_input)
GetWithLastInput ==
    \E now \in Times, seconds_since_input \in 0..MaxSeconds :
        LET r == get_with_last_input(tracker, now, seconds_since_input)
        IN  /\ tracker' = r.self
            /\ status' = Some(r.status)
            /\ tracker_op' = [op |-> "get_with_last_input", now |-> now,
                              seconds |-> seconds_since_input]
            /\ since_mark' = [since_mark EXCEPT !.reads = Bump(@), !.polled = TRUE]
            /\ UNCHANGED notTracker

\* a call of get_reactive(now)
GetReactive ==
    \E now \in Times :
        LET r == get_reactive(tracker, now)
        IN  /\ tracker' = r.self
            /\ status' = Some(r.status)
            /\ tracker_op' = [op |-> "get_reactive", now |-> now, seconds |-> 0]
            /\ since_mark' = [since_mark EXCEPT !.reads = Bump(@)]
            /\ UNCHANGED notTracker

TrackerNext == MarkNotIdle \/ MarkIdle \/ GetWithLastInput \/ GetReactive

(***************************************************************************)
(* Backend selection and construction (lib.rs, gnome.rs, kde.rs,           *)
(* wayland_wlr.rs, wayland_idle.rs, x11.rs)                                *)
(***************************************************************************)

\* the Linux candidates
Candidates == {"gnome", "kde", "wayland", "x11"}

\* the cfg blocks of GenericWindowManager::new with KDE placed first
Order_kde_first == <<"kde", "gnome", "wayland", "x11">>

\* the cfg blocks of GenericWindowManager::new, in program order
Order == <<"gnome", "kde", "wayland", "x11">>

\* the first statement of each candidate's constructor
Entry(c) ==
    CASE c = "gnome" -> "gnome_probe"
      [] c = "kde" -> "kde_connect"
      [] c = "wayland" -> "wl_inner"
      [] c = "x11" -> "x11_new"

\* utils::is_x11, from the environment
is_x11(e) == e.x11

\* utils::is_gnome, from the environment
is_gnome(e) == e.gnome

\* a Result without its payload
Results == {"ok", "err"}

\* the steps of KWinScript::load that can fail
LoadSteps == {"none", "write", "register", "start", "remove"}

\* KWinScript::load, `failing` being the step that fails: the script after
\* the call and the Result returned
load(self, failing) ==
    IF failing = "write"
    THEN [self |-> self, result |-> "err"]
    ELSE IF failing = "register"
    THEN [self |-> [self EXCEPT !.temp_file = TRUE], result |-> "err"]
    ELSE IF failing = "remove"
    THEN [self |-> [self EXCEPT !.temp_file = TRUE, !.registered = TRUE,
                                !.running = TRUE],
          result |-> "err"]
    ELSE [self |-> [self EXCEPT !.temp_file = FALSE, !.registered = TRUE,
                                !.running = (failing # "start"),
                                !.is_loaded = TRUE],
          result |-> IF failing = "start" THEN "err" ELSE "ok"]

\* the steps of IdleWatcher::new that can fail
IdleSteps == {"none", "connect", "get_ext_idle", "notification", "roundtrip"}

\* IdleWatcher::new: `?` returns the error, unwrap panics
IdleWatcher_new(failing) ==
    IF failing \in {"connect", "get_ext_idle"} THEN "err"
    ELSE IF failing \in {"notification", "roundtrip"} THEN "panic"
    ELSE "ok"

\* the steps of WaylandWindowWatcherInner::new that can fail
ToplevelSteps == {"none", "connect", "manager", "roundtrip"}

\* WaylandWindowWatcherInner::new
WaylandWindowWatcherInner_new(failing) ==
    IF failing \in {"connect", "manager"} THEN "err"
    ELSE IF failing = "roundtrip" THEN "panic"
    ELSE "ok"

\* the constructor of candidate c is left with outcome o: Ok is returned by
\* new, Err is logged by warn! and falls through to the next cfg block, a
\* panic unwinds through new
Returns(c, o) ==
    /\ outcome' = [outcome EXCEPT ![c] = o]
    /\ IF o = "ok"
       THEN /\ returned' = [kind |-> "ok", inner |-> Some(c)]
            /\ pc' = "done"
            /\ UNCHANGED <<idx, warned>>
       ELSE IF o = "err"
       THEN /\ warned' = warned \cup {c}
            /\ idx' = idx + 1
            /\ pc' = "select"
            /\ UNCHANGED returned
       ELSE /\ returned' = [kind |-> "panic", inner |-> None]
            /\ pc' = "done"
            /\ UNCHANGED <<idx, warned>>

\* the constructor goes on with its statement p
Goto(p) ==
    /\ pc' = p
    /\ UNCHANGED <<outcome, returned, idx, warned>>

\* GenericWindowManager::new(config), built with any set of features
ConstructInit ==
    /\ features \in SUBSET Candidates
    /\ env \in [x11 : BOOLEAN, gnome : BOOLEAN]
    /\ pc = "select"
    /\ idx = 1
    /\ tried = << >>
    /\ outcome = [c \in Candidates |-> "none"]
    /\ effects = {}
    /\ attempts = << >>
    /\ slept = 0
    /\ warned = {}
    /\ returned = [kind |-> "none", inner |-> None]
    /\ \E registered \in BOOLEAN :
           kwin_script = [is_loaded |-> FALSE, temp_file |-> FALSE,
                          registered |-> registered, running |-> registered]

\* the next compiled-in cfg block is entered, or the closing block returns
\* Err("No window manager was selected")
Select ==
    /\ pc = "select"
    /\ LET rest == {i \in idx..Len(Order) : Order[i] \in features}
       IN  IF rest = {}
           THEN /\ returned' = [kind |-> "err", inner |-> None]
                /\ pc' = "done"
                /\ UNCHANGED <<idx, tried>>
           ELSE LET i == CHOOSE j \in rest : \A k \in rest : j <= k
                IN  /\ idx' = i
                    /\ tried' = Append(tried, Order[i])
                    /\ pc' = Entry(Order[i])
                    /\ UNCHANGED returned
    /\ UNCHANGED <<features, env, outcome, effects, attempts, slept, warned,
                   kwin_script, notConstruct>>

\* GnomeWindowWatcher::new, the two environment checks
GnomeProbe ==
    /\ pc = "gnome_probe"
    /\ IF is_x11(env) THEN Returns("gnome", "err")
       ELSE IF ~is_gnome(env) THEN Returns("gnome", "err")
       ELSE Goto("gnome_loop")
    /\ UNCHANGED <<features, env, tried, effects, attempts, slept,
                   kwin_script, notConstruct>>

\* one turn of `for _ in 0..3`: the loader opens the session bus and makes
\* the warm-up query; a failed turn sleeps for the backoff
GnomeAttempt ==
    /\ pc = "gnome_loop"
    /\ Len(attempts) < GnomeAttempts
    /\ \E connection \in Results, warm_up \in Results :
           LET watcher == IF connection = "err" THEN "err" ELSE warm_up
           IN  /\ effects' = effects \cup
                      IF connection = "err" THEN {}
                      ELSE {<<"gnome", "bus_connect">>,
                            <<"gnome", "warm_up_query">>}
               /\ attempts' = Append(attempts, watcher)
               /\ slept' = IF watcher = "err"
                           THEN slept + GnomeBackoffSeconds ELSE slept
    /\ Goto("gnome_loop")
    /\ UNCHANGED <<features, env, tried, kwin_script, notConstruct>>

\* the loop is over: new returns the watcher of its last turn
GnomeReturn ==
    /\ pc = "gnome_loop"
    /\ Len(attempts) = GnomeAttempts
    /\ Returns("gnome", attempts[Len(attempts)])
    /\ UNCHANGED <<features, env, tried, effects, attempts, slept,
                   kwin_script, notConstruct>>

\* KdeWindowManager::new: Connection::session().await?
KdeConnect ==
    /\ pc = "kde_connect"
    /\ \E connection \in Results :
           IF connection = "err"
           THEN Returns("kde", "err") /\ UNCHANGED effects
           ELSE /\ Goto("kde_is_loaded")
                /\ effects' = effects \cup {<<"kde", "bus_connect">>}
    /\ UNCHANGED <<features, env, tried, attempts, slept, kwin_script,
                   notConstruct>>

\* kwin_script.is_loaded().await?
KdeIsLoaded ==
    /\ pc = "kde_is_loaded"
    /\ \E call \in Results :
           IF call = "err" THEN Returns("kde", "err")
           ELSE IF kwin_script.registered THEN Goto("kde_unload")
           ELSE Goto("kde_x11")
    /\ UNCHANGED <<features, env, tried, effects, attempts, slept,
                   kwin_script, notConstruct>>

\* kwin_script.unload().await?
KdeUnload ==
    /\ pc = "kde_unload"
    /\ effects' = effects \cup {<<"kde", "unload">>}
    /\ \E call \in Results :
           IF call = "err"
           THEN Returns("kde", "err") /\ UNCHANGED kwin_script
           ELSE /\ Goto("kde_x11")
                /\ kwin_script' = [kwin_script EXCEPT !.registered = FALSE,
                                                      !.running = FALSE]
    /\ UNCHANGED <<features, env, tried, attempts, slept, notConstruct>>

\* the X11 check of KdeWindowManager::new
KdeX11 ==
    /\ pc = "kde_x11"
    /\ IF is_x11(env) THEN Returns("kde", "err") ELSE Goto("kde_load")
    /\ UNCHANGED <<features, env, tried, effects, attempts, slept,
                   kwin_script, notConstruct>>

\* kwin_script.load().await.unwrap()
KdeLoad ==
    /\ pc = "kde_load"
    /\ effects' = effects \cup {<<"kde", "load">>}
    /\ \E failing \in LoadSteps :
           LET r == load(kwin_script, failing)
           IN  /\ kwin_script' = r.self
               /\ IF r.result = "err" THEN Returns("kde", "panic")
                  ELSE Goto("kde_serve")
    /\ UNCHANGED <<features, env, tried, attempts, slept, notConstruct>>

\* the spawned task serves the callback interface and reports over the
\* channel; an error received ends new with Err
KdeServe ==
    /\ pc = "kde_serve"
    /\ effects' = effects \cup {<<"kde", "spawn_task">>}
    /\ \E get_connection \in Results :
           IF get_connection = "err" THEN Returns("kde", "err")
           ELSE Goto("kde_idle")
    /\ UNCHANGED <<features, env, tried, attempts, slept, kwin_script,
                   notConstruct>>

\* IdleWatcherRunner::new(..)? closing KdeWindowManager::new; when it fails
\* the JoinHandle of the serving task is dropped, which detaches the task
KdeIdle ==
    /\ pc = "kde_idle"
    /\ \E failing \in IdleSteps :
           /\ Returns("kde", IdleWatcher_new(failing))
           /\ effects' = effects \cup {<<"kde", "idle_watcher_new">>} \cup
                  IF IdleWatcher_new(failing) = "ok"
                  THEN {<<"kde", "spawn_idle_pump">>} ELSE {}
    /\ UNCHANGED <<features, env, tried, attempts, slept, kwin_script,
                   notConstruct>>

\* WaylandWindowWatcher::new: the inner watcher, then the window pump thread
WaylandInner ==
    /\ pc = "wl_inner"
    /\ \E failing \in ToplevelSteps :
           IF WaylandWindowWatcherInner_new(failing) = "ok"
           THEN /\ Goto("wl_idle")
                /\ effects' = effects \cup {<<"wayland", "spawn_window_pump">>}
           ELSE /\ Returns("wayland", WaylandWindowWatcherInner_new(failing))
                /\ UNCHANGED effects
    /\ UNCHANGED <<features, env, tried, attempts, slept, kwin_script,
                   notConstruct>>

\* IdleWatcherRunner::new(..)? closing WaylandWindowWatcher::new; when it
\* fails the Sender is dropped without a send and the pump's try_recv
\* returns Err(Disconnected), which its loop does not take for a stop
WaylandIdle ==
    /\ pc = "wl_idle"
    /\ \E failing \in IdleSteps :
           /\ Returns("wayland", IdleWatcher_new(failing))
           /\ effects' = effects \cup
                  IF IdleWatcher_new(failing) = "ok"
                  THEN {<<"wayland", "spawn_idle_pump">>} ELSE {}
    /\ UNCHANGED <<features, env, tried, attempts, slept, kwin_script,
                   notConstruct>>

\* LinuxWindowManager::new: always Ok
X11New ==
    /\ pc = "x11_new"
    /\ Returns("x11", "ok")
    /\ UNCHANGED <<features, env, tried, effects, attempts, slept,
                   kwin_script, notConstruct>>

\* Drop for KWinScript: its body is commented out, nothing is issued
drop_KWinScript(self, effs) == effs

\* Drop for IdleWatcherRunner: the stop signal is sent to the idle pump
drop_IdleWatcherRunner(c, effs) == effs \cup {<<c, "stop_idle_pump">>}

\* Drop for WaylandWindowWatcher: the stop signal is sent to the window pump
drop_WaylandWindowWatcher(effs) == effs \cup {<<"wayland", "stop_window_pump">>}

\* the GenericWindowManager new returned is dropped: the selected backend
\* runs its Drop, then the Drop of each of its fields
Teardown ==
    /\ pc = "done"
    /\ returned.kind = "ok"
    /\ pc' = "dropped"
    /\ effects' =
           IF returned.inner = Some("kde")
           THEN drop_IdleWatcherRunner("kde",
                    drop_KWinScript(kwin_script, effects))
           ELSE IF returned.inner = Some("wayland")
           THEN drop_IdleWatcherRunner("wayland",
                    drop_WaylandWindowWatcher(effects))
           ELSE effects
    /\ UNCHANGED <<features, env, idx, tried, outcome, attempts, slept,
                   warned, returned, kwin_script, notConstruct>>

ConstructNext ==
    \/ Teardown
    \/ Select
    \/ GnomeProbe \/ GnomeAttempt \/ GnomeReturn
    \/ KdeConnect \/ KdeIsLoaded \/ KdeUnload \/ KdeX11 \/ KdeLoad
    \/ KdeServe \/ KdeIdle
    \/ WaylandInner \/ WaylandIdle
    \/ X11New

(***************************************************************************)
(* GNOME poll (gnome.rs) behind the facade (lib.rs)                        *)
(***************************************************************************)

Titles == {"", "doc"}
Classes == {"", "term", "web"}

\* the instants SystemTime::now() returns to the GNOME watcher, in seconds
GnomeTimes == {k * GnomeTick : k \in 0..MaxGnomeTicks}

\* CacheConfig of desktop_info_cache
GnomeCacheConfig == [ttl |-> GnomeCacheTtl, max_size |-> GnomeCacheMaxSize]

\* an anyhow::Error: where it arose and which of the two phrases its
\* to_string() contains
Error(origin, no_window, no_object) ==
    [origin |-> origin, no_window |-> no_window, no_object |-> no_object]

\* anyhow!("The extension seems to have stopped")
Stopped == Error("stopped", FALSE, FALSE)

Ok(value) == [kind |-> "ok", value |-> value]
Err(error) == [kind |-> "err", error |-> error]

\* what the remote Get call can produce.  "ok": a JSON payload with title
\* and wm_class.  "call_err": the call failed; the text of the bus error
\* carries the phrase of its cause.  "body_err": the reply body is not a
\* string.  "json_err": the payload is not the expected JSON; the payload
\* is arbitrary text and may contain either phrase.
Responses ==
    [kind : {"ok"}, title : Titles, wm_class : Classes,
     no_window : {FALSE}, no_object : {FALSE}]
    \cup {[kind |-> "call_err", title |-> "", wm_class |-> "",
           no_window |-> (cause = "no_window"),
           no_object |-> (cause = "no_object")] :
              cause \in {"no_window", "no_object", "other"}}
    \cup [kind : {"body_err"}, title : {""}, wm_class : {""},
          no_window : {FALSE}, no_object : {FALSE}]
    \cup [kind : {"json_err"}, title : {""}, wm_class : {""},
          no_window : BOOLEAN, no_object : BOOLEAN]

\* WindowData
WindowData(title, wm_class) == [title |-> title, wm_class |-> wm_class]

\* WindowData::default()
WindowData_default == WindowData("", "")

\* GnomeWindowWatcher::get_window_data that propagates every call error
gnome_get_window_data_propagates(resp) ==
    IF resp.kind = "ok" THEN Ok(WindowData(resp.title, resp.wm_class))
    ELSE IF resp.kind = "body_err" THEN Err(Error("body", FALSE, FALSE))
    ELSE IF resp.kind = "json_err"
    THEN Err(Error("json", resp.no_window, resp.no_object))
    ELSE Err(Error("call", resp.no_window, resp.no_object))

\* GnomeWindowWatcher::get_window_data, resp being the outcome of its one
\* call_method
gnome_get_window_data(resp) ==
    IF resp.kind = "ok" THEN Ok(WindowData(resp.title, resp.wm_class))
    ELSE IF resp.kind = "body_err" THEN Err(Error("body", FALSE, FALSE))
    ELSE IF resp.kind = "json_err"
    THEN Err(Error("json", resp.no_window, resp.no_object))
    ELSE IF resp.no_window THEN Ok(WindowData_default)
    ELSE Err(Error("call", resp.no_window, resp.no_object))

\* DesktopInfo of a desktop entry
DesktopInfo(app_id) ==
    [app_name |-> <<"name", app_id>>, process_path |-> <<"exec", app_id>>]

\* LinuxDesktopInfo::get_extra_info
get_extra_info(entries, app_id) ==
    IF app_id \in entries THEN Some(DesktopInfo(app_id)) ELSE None

\* ActiveWindowData
ActiveWindowData(window_title, app_identifier, process_path, app_name) ==
    [window_title |-> window_title, app_identifier |-> app_identifier,
     process_path |-> process_path, app_name |-> app_name]

\* the part of get_active_window_data after a successful get_window_data
gnome_snapshot(self, data, now, entries) ==
    LET s1 == IF data.wm_class # self.last_app_id
                 \/ data.title # self.last_title
              THEN [self EXCEPT !.last_app_id = data.wm_class,
                                !.last_title = data.title]
              ELSE self
        looked == get(s1.desktop_info_cache, GnomeCacheConfig,
                      s1.last_app_id, now)
        extra == IF looked.ret # None THEN None
                 ELSE get_extra_info(entries, s1.last_app_id)
        info == IF looked.ret # None THEN looked.ret ELSE extra
        cache2 == IF looked.ret = None /\ extra # None
                  THEN set(looked.cache, GnomeCacheConfig, s1.last_app_id,
                           Unwrap(extra), now, now)
                  ELSE looked.cache
    IN  [self |-> [s1 EXCEPT !.desktop_info_cache = cache2],
         ret |-> Ok(ActiveWindowData(
                     s1.last_title, Some(s1.last_app_id),
                     IF info = None THEN None
                     ELSE Some(Unwrap(info).process_path),
                     IF info = None THEN None
                     ELSE Some(Unwrap(info).app_name))),
         remote_calls |-> 1,
         provider_calls |-> IF looked.ret = None THEN 1 ELSE 0]

\* GnomeWindowWatcher::get_active_window_data that forgets the last-seen
\* window when the poll fails
gnome_get_active_window_data_forgets(self, resp, now, entries) ==
    LET data == gnome_get_window_data(resp)
    IN  IF data.kind = "err"
        THEN [self |-> [self EXCEPT !.last_app_id = "", !.last_title = ""],
              ret |-> IF data.error.no_object THEN Err(Stopped) ELSE data,
              remote_calls |-> 1,
              provider_calls |-> 0]
        ELSE gnome_snapshot(self, data.value, now, entries)

\* GnomeWindowWatcher::get_active_window_data: the watcher after the call,
\* the Result returned, and the remote and provider calls made
gnome_get_active_window_data(self, resp, now, entries) ==
    LET data == gnome_get_window_data(resp)
    IN  IF data.kind = "err"
        THEN [self |-> self,
              ret |-> IF data.error.no_object THEN Err(Stopped) ELSE data,
              remote_calls |-> 1,
              provider_calls |-> 0]
        ELSE gnome_snapshot(self, data.value, now, entries)

\* GenericWindowManager::get_active_window_data with a GNOME inner
facade_get_active_window_data(inner, resp, now, entries) ==
    LET r == gnome_get_active_window_data(inner, resp, now, entries)
    IN  [inner |-> r.self, ret |-> r.ret, forwards |-> 1,
         remote_calls |-> r.remote_calls, provider_calls |-> r.provider_calls]

\* a GnomeWindowWatcher as its loader builds it
GnomeInit ==
    /\ gnome_watcher = [last_title |-> "", last_app_id |-> "",
                        desktop_info_cache |-> << >>]
    /\ desktop_entries \in SUBSET (Classes \ {""})
    /\ gnome_clock = 0
    /\ gnome_ret = None
    /\ gnome_op = [op |-> "new", resp |-> None, now |-> 0, forwards |-> 0,
                   remote_calls |-> 0, provider_calls |-> 0,
                   after_err |-> FALSE]

\* a poll through the facade
GnomePoll ==
    \E resp \in Responses, now \in {t \in GnomeTimes : t >= gnome_clock} :
        LET r == facade_get_active_window_data(gnome_watcher, resp, now,
                                               desktop_entries)
        IN  /\ gnome_watcher' = r.inner
            /\ gnome_ret' = Some(r.ret)
            /\ gnome_clock' = now
            /\ gnome_op' = [op |-> "get_active_window_data",
                            resp |-> Some(resp), now |-> now,
                            forwards |-> r.forwards,
                            remote_calls |-> r.remote_calls,
                            provider_calls |-> r.provider_calls,
                            after_err |-> (gnome_ret # None
                                           /\ Unwrap(gnome_ret).kind = "err")]
            /\ UNCHANGED <<desktop_entries, notGnome>>

GnomeNext == GnomePoll

(***************************************************************************)
(* Idle pump of the KDE and generic Wayland backends (wayland_idle.rs)     *)
(* and the foreground is_idle (kde.rs, wayland_wlr.rs)                     *)
(***************************************************************************)

\* the ext-idle-notification events
IdleEvents == {"Idled", "Resumed"}

\* the roundtrip dispatches the queued events in order: WatcherState::idle
\* and WatcherState::resume
RECURSIVE dispatch(_, _, _)
dispatch(self, events, now) ==
    IF events = << >> THEN self
    ELSE dispatch(IF Head(events) = "Idled" THEN mark_idle(self, now)
                  ELSE mark_not_idle(self, now),
                  Tail(events), now)

\* an iteration that reads the status before it dispatches the events
run_iteration_stale(self, events, roundtrip, now) ==
    IF roundtrip = "err"
    THEN [self |-> self, ret |-> Err("Event queue is not processed")]
    ELSE [self |-> get_reactive(dispatch(self, events, now), now).self,
          ret |-> Ok(get_reactive(self, now).status)]

\* IdleWatcher::run_iteration: the tracker after the call and the Result
run_iteration(self, events, roundtrip, now) ==
    IF roundtrip = "err"
    THEN [self |-> self, ret |-> Err("Event queue is not processed")]
    ELSE LET r == get_reactive(dispatch(self, events, now), now)
         IN  [self |-> r.self, ret |-> Ok(r.status)]

\* a pump that empties the cell when its iteration fails
publish_or_clear(cell, ret) ==
    IF ret.kind = "ok" THEN Some(ret.value) ELSE None

\* the match on run_iteration's Result in the pump loops: Ok stores the
\* value in the cell, Err is logged
publish(cell, ret) ==
    IF ret.kind = "ok" THEN Some(ret.value) ELSE cell

\* KdeWindowManager::is_idle and WaylandWindowWatcher::is_idle on the cell
is_idle(cell) ==
    IF cell = None THEN Ok(FALSE)
    ELSE IF Unwrap(cell).kind = "Idle" THEN Ok(TRUE)
    ELSE Ok(FALSE)

\* IdleWatcherRunner::new has returned: the tracker is new, the cell is
\* empty, the pump thread is about to make its first iteration
PumpInit ==
    /\ \E timeout \in 0..MaxPumpTimeout : idle_state = new(0, timeout)
    /\ pending = << >>
    /\ native_idle = FALSE
    /\ current_idle_status = None
    /\ pump_pc = "iterate"
    /\ stop_signal = FALSE
    /\ pump_clock = 0
    /\ is_idle_ret = None
    /\ is_idle_op = [op |-> "new", published |-> FALSE]
    /\ pump_op = [iter |-> "none", after_err |-> FALSE, since_stop |-> 0]

\* the compositor reports, on the connection the pump thread owns, that the
\* seat went idle, or resumed
NativeEvent ==
    /\ pump_pc \in {"iterate", "sleep"}
    /\ Len(pending) < MaxPending
    /\ native_idle' = ~native_idle
    /\ pending' = Append(pending, IF native_idle THEN "Resumed" ELSE "Idled")
    /\ UNCHANGED <<idle_state, current_idle_status, pump_pc, stop_signal,
                   pump_clock, is_idle_ret, is_idle_op, pump_op, notPump>>

\* one iteration of the pump thread: run_iteration, publish on Ok, log on
\* Err, then sleep
PumpIterate ==
    /\ pump_pc = "iterate"
    /\ \E roundtrip \in Results, now \in pump_clock..MaxPumpNow :
           LET r == run_iteration(idle_state, pending, roundtrip, now)
           IN  /\ idle_state' = r.self
               /\ pending' = IF roundtrip = "ok" THEN << >> ELSE pending
               /\ current_idle_status' = publish(current_idle_status, r.ret)
               /\ pump_clock' = now
               /\ pump_op' =
                      [iter |-> r.ret.kind,
                       after_err |-> (pump_op.iter = "err"),
                       since_stop |->
                           IF stop_signal /\ r.ret.kind = "ok"
                           THEN pump_op.since_stop + 1
                           ELSE pump_op.since_stop]
    /\ pump_pc' = "sleep"
    /\ UNCHANGED <<native_idle, stop_signal, is_idle_ret, is_idle_op, notPump>>

\* a pump loop that does not look at the stop channel
PumpWake_never_breaks ==
    /\ pump_pc = "sleep"
    /\ pump_pc' = "iterate"
    /\ UNCHANGED <<idle_state, pending, native_idle, current_idle_status,
                   stop_signal, pump_clock, is_idle_ret, is_idle_op, pump_op,
                   notPump>>

\* the sleep is over: try_recv on the stop channel, break or loop
PumpWake ==
    /\ pump_pc = "sleep"
    /\ pump_pc' = IF stop_signal THEN "exited" ELSE "iterate"
    /\ UNCHANGED <<idle_state, pending, native_idle, current_idle_status,
                   stop_signal, pump_clock, is_idle_ret, is_idle_op, pump_op,
                   notPump>>

\* a foreground is_idle through the facade
IsIdle ==
    /\ ~stop_signal
    /\ is_idle_ret' = Some(is_idle(current_idle_status))
    /\ is_idle_op' = [op |-> "is_idle",
                      published |-> (current_idle_status # None)]
    /\ UNCHANGED <<idle_state, pending, native_idle, current_idle_status,
                   pump_pc, stop_signal, pump_clock, pump_op, notPump>>

\* Drop for IdleWatcherRunner
DropRunner ==
    /\ ~stop_signal
    /\ stop_signal' = TRUE
    /\ UNCHANGED <<idle_state, pending, native_idle, current_idle_status,
                   pump_pc, pump_clock, is_idle_ret, is_idle_op, pump_op,
                   notPump>>

PumpNext == NativeEvent \/ PumpIterate \/ PumpWake \/ IsIdle \/ DropRunner

(***************************************************************************)
(* KDE focus callback and foreground read (kde.rs)                         *)
(***************************************************************************)

KdeNames == {"term", "web"}
KdeClasses == {"konsole"}

\* the instants SystemTime::now() returns to the callback, in seconds
KdeTimes == {k * KdeCacheTtl : k \in 0..MaxKdeTicks}

\* CacheConfig of the callback interface's desktop_info_cache
KdeCacheConfig == [ttl |-> KdeCacheTtl, max_size |-> KdeCacheMaxSize]

\* a field value and the callback invocation that assigned it (0: the
\* record built by KdeWindowManager::new)
Field(v, by) == [v |-> v, by |-> by]

\* the ActiveWindow built by KdeWindowManager::new
ActiveWindow_new ==
    [caption |-> Field("", 0), resource_name |-> Field("", 0),
     resource_class |-> Field("", 0), process_path |-> Field(None, 0),
     app_name |-> Field(None, 0)]

\* tokio Mutex::lock that does not wait for the holder
lock_never_waits(holder) == TRUE

\* tokio Mutex::lock returns once no one holds the mutex
lock_available(holder) == holder = "free"

\* the enrichment lookup of notify_active_window: the cache after it and
\* the (process_path, app_name) pair
kde_enrich(c, resource_name, now, entries) ==
    LET looked == get(c, KdeCacheConfig, resource_name, now)
        extra == IF looked.ret # None THEN None
                 ELSE get_extra_info(entries, resource_name)
        info == IF looked.ret # None THEN looked.ret ELSE extra
    IN  [cache |-> IF looked.ret = None /\ extra # None
                   THEN set(looked.cache, KdeCacheConfig, resource_name,
                            Unwrap(extra), now, now)
                   ELSE looked.cache,
         process_path |-> IF info = None THEN None
                          ELSE Some(Unwrap(info).process_path),
         app_name |-> IF info = None THEN None
                      ELSE Some(Unwrap(info).app_name)]

\* the assignments of notify_active_window, in program order
WriteOrder ==
    <<"caption", "resource_class", "resource_name", "process_path",
      "app_name">>

\* the fields send_active_window copies, in program order
ReadOrder == <<"caption", "resource_name", "process_path", "app_name">>

\* no callback is running
CallbackIdle ==
    [pc |-> "idle", id |-> 0, at |-> 0,
     locals |-> [caption |-> "", resource_class |-> "",
                 resource_name |-> "", process_path |-> None,
                 app_name |-> None]]

\* no foreground read is running
ReaderIdle == [pc |-> "idle", at |-> 0, copied |-> ActiveWindow_new]

\* KdeWindowManager::new has returned
KdeInit ==
    /\ active_window = ActiveWindow_new
    /\ kde_lock = "free"
    /\ callback = CallbackIdle
    /\ reader = ReaderIdle
    /\ kde_cache = << >>
    /\ kde_entries \in SUBSET KdeNames
    /\ kde_clock = 0
    /\ invocations = 0
    /\ kde_ret = None

\* KWin calls notify_active_window: the enrichment is looked up before the
\* lock is asked for
NotifyStart ==
    /\ callback.pc = "idle"
    /\ invocations < MaxCallbacks
    /\ \E caption \in Titles, resource_class \in KdeClasses,
          resource_name \in KdeNames,
          now \in {t \in KdeTimes : t >= kde_clock} :
           LET e == kde_enrich(kde_cache, resource_name, now, kde_entries)
           IN  /\ kde_cache' = e.cache
               /\ kde_clock' = now
               /\ callback' =
                      [pc |-> "lock", id |-> invocations + 1, at |-> 0,
                       locals |-> [caption |-> caption,
                                   resource_class |-> resource_class,
                                   resource_name |-> resource_name,
                                   process_path |-> e.process_path,
                                   app_name |-> e.app_name]]
    /\ invocations' = invocations + 1
    /\ UNCHANGED <<active_window, kde_lock, reader, kde_entries, kde_ret,
                   notKde>>

\* self.active_window.lock().await in the callback
NotifyLock ==
    /\ callback.pc = "lock"
    /\ lock_available(kde_lock)
    /\ kde_lock' = "callback"
    /\ callback' = [callback EXCEPT !.pc = "write", !.at = 1]
    /\ UNCHANGED <<active_window, reader, kde_cache, kde_entries, kde_clock,
                   invocations, kde_ret, notKde>>

\* the next assignment of the callback; the guard is dropped after the last
NotifyWrite ==
    /\ callback.pc = "write"
    /\ LET f == WriteOrder[callback.at]
       IN  active_window' =
               [active_window EXCEPT
                    ![f] = Field(callback.locals[f], callback.id)]
    /\ IF callback.at = Len(WriteOrder)
       THEN /\ callback' = CallbackIdle
            /\ kde_lock' = "free"
       ELSE /\ callback' = [callback EXCEPT !.at = @ + 1]
            /\ UNCHANGED kde_lock
    /\ UNCHANGED <<reader, kde_cache, kde_entries, kde_clock, invocations,
                   kde_ret, notKde>>

\* the foreground calls get_active_window_data
ReadStart ==
    /\ reader.pc = "idle"
    /\ reader' = [reader EXCEPT !.pc = "lock"]
    /\ UNCHANGED <<active_window, kde_lock, callback, kde_cache, kde_entries,
                   kde_clock, invocations, kde_ret, notKde>>

\* active_window.lock().await in send_active_window
ReadLock ==
    /\ reader.pc = "lock"
    /\ lock_available(kde_lock)
    /\ kde_lock' = "reader"
    /\ reader' = [reader EXCEPT !.pc = "copy", !.at = 1]
    /\ UNCHANGED <<active_window, callback, kde_cache, kde_entries, kde_clock,
                   invocations, kde_ret, notKde>>

\* the next field is cloned into the snapshot; after the last one the
\* snapshot is returned and the guard dropped
ReadCopy ==
    /\ reader.pc = "copy"
    /\ LET f == ReadOrder[reader.at]
           copied == [reader.copied EXCEPT ![f] = active_window[f]]
       IN  IF reader.at = Len(ReadOrder)
           THEN /\ kde_ret' =
                       Some([value |-> Ok(ActiveWindowData(
                                 copied.caption.v,
                                 Some(copied.resource_name.v),
                                 copied.process_path.v,
                                 copied.app_name.v)),
                             by |-> [g \in {ReadOrder[i] :
                                            i \in 1..Len(ReadOrder)} |->
                                         copied[g].by]])
                /\ reader' = ReaderIdle
                /\ kde_lock' = "free"
           ELSE /\ reader' = [reader EXCEPT !.at = @ + 1,
                                             !.copied = copied]
                /\ UNCHANGED <<kde_ret, kde_lock>>
    /\ UNCHANGED <<active_window, callback, kde_cache, kde_entries, kde_clock,
                   invocations, notKde>>

KdeNext ==
    \/ NotifyStart \/ NotifyLock \/ NotifyWrite
    \/ ReadStart \/ ReadLock \/ ReadCopy
(***************************************************************************)
(* Wayland toplevel table and window pump (wayland_wlr.rs)                 *)
(***************************************************************************)

Handles == {"h1", "h2"}
WlTitles == {"doc"}
WlAppIds == {"term"}

\* struct WindowData of wayland_wlr.rs
WlWindowData(app_id, title) == [app_id |-> app_id, title |-> title]

\* ToplevelState::new
ToplevelState_new ==
    [windows |-> [h \in {} |-> WlWindowData("unknown", "unknown")],
     current_window_id |-> None]

\* the events of the foreign-toplevel manager and of its handles
WlEvents ==
    [kind : {"Toplevel", "Closed", "Done"}, id : Handles]
        \cup {[kind |-> "Finished"]}
        \cup [kind : {"Title"}, id : Handles, title : WlTitles]
        \cup [kind : {"AppId"}, id : Handles, app_id : WlAppIds]
        \cup [kind : {"State"}, id : Handles, activated : BOOLEAN]

\* Dispatch<ZwlrForeignToplevelManagerV1>::event
manager_event(state, event) ==
    IF event.kind = "Toplevel"
    THEN [state EXCEPT !.windows =
              insert(@, event.id, WlWindowData("unknown", "unknown"))]
    ELSE state

\* a handle event handler that creates the entry of a handle it does not know
handle_event_upserts(state, event) ==
    LET known == [state EXCEPT !.windows =
                      insert(@, event.id,
                             IF event.id \in DOMAIN @ THEN @[event.id]
                             ELSE WlWindowData("unknown", "unknown"))]
    IN  CASE event.kind = "Title" ->
                 [known EXCEPT !.windows[event.id].title = event.title]
          [] event.kind = "AppId" ->
                 [known EXCEPT !.windows[event.id].app_id = event.app_id]
          [] event.kind = "State" ->
                 IF event.activated
                 THEN [known EXCEPT !.current_window_id = Some(event.id)]
                 ELSE known
          [] event.kind = "Closed" ->
                 [known EXCEPT !.windows = remove(@, event.id)]
          [] OTHER -> known

\* Dispatch<ZwlrForeignToplevelHandleV1>::event
handle_event(state, event) ==
    IF event.id \in DOMAIN state.windows
    THEN CASE event.kind = "Title" ->
                  [state EXCEPT !.windows[event.id].title = event.title]
           [] event.kind = "AppId" ->
                  [state EXCEPT !.windows[event.id].app_id = event.app_id]
           [] event.kind = "State" ->
                  IF event.activated
                  THEN [state EXCEPT !.current_window_id = Some(event.id)]
                  ELSE state
           [] event.kind = "Closed" ->
                  [state EXCEPT !.windows = remove(@, event.id)]
           [] OTHER -> state
    ELSE state

\* the event queue hands an event to the handler of its object
toplevel_event(state, event) ==
    IF event.kind \in {"Toplevel", "Finished"}
    THEN manager_event(state, event)
    ELSE handle_event(state, event)

\* the roundtrip dispatches the queued events in order
RECURSIVE toplevel_dispatch(_, _)
toplevel_dispatch(state, events) ==
    IF events = << >> THEN state
    ELSE toplevel_dispatch(toplevel_event(state, Head(events)), Tail(events))

\* whether the queue holds the manager's Finished event
has_finished(events) ==
    \E i \in 1..Len(events) : events[i].kind = "Finished"

Panic == [kind |-> "panic"]

\* a struct expression without the todo!() fields
window_snapshot_built(window) ==
    Ok(ActiveWindowData(window.title, Some(window.app_id), None, None))

\* the struct expression that ends run_iteration: process_path: todo!()
\* panics before the value is built
window_snapshot(window) == Panic

\* WaylandWindowWatcherInner::run_iteration: the state after the call and
\* the Result, or the panic
window_run_iteration(state, events, roundtrip) ==
    IF roundtrip = "err"
    THEN [self |-> state, ret |-> Err("Event queue is not processed")]
    ELSE LET s == toplevel_dispatch(state, events)
         IN  [self |-> s,
              ret |-> IF s.current_window_id = None
                      THEN Err("Current window is unknown")
                      ELSE IF Unwrap(s.current_window_id)
                                  \notin DOMAIN s.windows
                      THEN Err("Current window is not found by ID")
                      ELSE window_snapshot(
                               s.windows[Unwrap(s.current_window_id)])]

\* WaylandWindowWatcher::get_active_window_data on the cell
window_get_active_window_data(cell) ==
    IF cell = None THEN Err("No active window data") ELSE Ok(Unwrap(cell))

\* WaylandWindowWatcher::new has returned: the table is the one the first
\* roundtrip of WaylandWindowWatcherInner::new left after it dispatched the
\* events the compositor sent for the toplevels that exist, the cell is
\* empty, the pump thread is about to make its first iteration
WindowInit ==
    /\ \E n \in 0..MaxInitEvents :
           \E events \in [1..n -> WlEvents] :
               toplevel_state = toplevel_dispatch(ToplevelState_new, events)
    /\ wl_pending = << >>
    /\ wl_finished = FALSE
    /\ current_window_data = None
    /\ window_pc = "iterate"
    /\ window_stop = FALSE
    /\ window_ret = None
    /\ window_op = [iter |-> "none", since_stop |-> 0]
    /\ window_poll = [op |-> "new", after_finished |-> FALSE]

\* the compositor sends a toplevel event on the thread's connection
WlEvent ==
    /\ window_pc \in {"iterate", "sleep"}
    /\ Len(wl_pending) < MaxWlPending
    /\ \E event \in WlEvents : wl_pending' = Append(wl_pending, event)
    /\ UNCHANGED <<toplevel_state, wl_finished, current_window_data,
                   window_pc, window_stop, window_ret, window_op,
                   window_poll, notWindow>>

\* one iteration of the pump thread: run_iteration, publish on Ok, log on
\* Err, then sleep; a panic ends the thread
WindowIterate ==
    /\ window_pc = "iterate"
    /\ \E roundtrip \in Results :
           LET r == window_run_iteration(toplevel_state, wl_pending,
                                         roundtrip)
           IN  /\ toplevel_state' = r.self
               /\ wl_pending' = IF roundtrip = "ok" THEN << >>
                                ELSE wl_pending
               /\ wl_finished' =
                      (wl_finished
                           \/ (roundtrip = "ok" /\ has_finished(wl_pending)))
               /\ current_window_data' = publish(current_window_data, r.ret)
               /\ window_pc' = IF r.ret.kind = "panic" THEN "panicked"
                               ELSE "sleep"
               /\ window_op' =
                      [iter |-> r.ret.kind,
                       since_stop |->
                           IF window_stop /\ r.ret.kind = "ok"
                           THEN window_op.since_stop + 1
                           ELSE window_op.since_stop]
    /\ UNCHANGED <<window_stop, window_ret, window_poll, notWindow>>

\* the sleep is over: try_recv on the stop channel, break or loop
WindowWake ==
    /\ window_pc = "sleep"
    /\ window_pc' = IF window_stop THEN "exited" ELSE "iterate"
    /\ UNCHANGED <<toplevel_state, wl_pending, wl_finished,
                   current_window_data, window_stop, window_ret, window_op,
                   window_poll, notWindow>>

\* a foreground get_active_window_data through the facade
GetActiveWindowData ==
    /\ ~window_stop
    /\ window_ret' =
           Some(window_get_active_window_data(current_window_data))
    /\ window_poll' = [op |-> "get_active_window_data",
                       after_finished |-> wl_finished]
    /\ UNCHANGED <<toplevel_state, wl_pending, wl_finished,
                   current_window_data, window_pc, window_stop, window_op,
                   notWindow>>

\* Drop for WaylandWindowWatcher
DropWatcher ==
    /\ ~window_stop
    /\ window_stop' = TRUE
    /\ UNCHANGED <<toplevel_state, wl_pending, wl_finished,
                   current_window_data, window_pc, window_ret, window_op,
                   window_poll, notWindow>>

WindowNext ==
    \/ WlEvent \/ WindowIterate \/ WindowWake \/ GetActiveWindowData
    \/ DropWatcher
(***************************************************************************)
(* macOS helper process and reader thread (macos.rs)                       *)
(***************************************************************************)

\* struct AppInfo
AppInfo(unix_id, app, title) ==
    [unix_id |-> unix_id, app |-> app, title |-> title]

AppInfos == {AppInfo(7, app, "inbox") : app \in {"Mail", "Safari"}}

\* what the lines iterator can yield: a line that parses as an AppInfo, a
\* line that does not (the helper script prints app, url, title and
\* incognito, without unixId), or a read error
MacLines ==
    [kind : {"record"}, info : AppInfos]
        \cup {[kind |-> "malformed"], [kind |-> "unreadable"]}

\* a receiver that never finds the stop message
try_recv_empty(stop) == FALSE

\* stop_signal_receiver.try_recv().is_ok()
try_recv(stop) == stop = "sent"

\* line.unwrap() followed by serde_json::from_str(&line).unwrap()
from_str(line) ==
    IF line.kind = "record" THEN Ok(line.info) ELSE Panic

\* create_separate_osascript_process has returned: the child runs, the
\* reader thread waits for the first line, the cell is empty
MacosInit ==
    /\ mac_pipe = << >>
    /\ child = "running"
    /\ reader_pc = "read"
    /\ mac_line = None
    /\ mac_stop = "none"
    /\ current_app_info = None
    /\ mac_op = [last |-> "none", since_stop |-> 0]

\* the helper process writes a line to its standard output
MacEmit ==
    /\ child = "running"
    /\ Len(mac_pipe) < MaxLines
    /\ \E line \in MacLines : mac_pipe' = Append(mac_pipe, line)
    /\ UNCHANGED <<child, reader_pc, mac_line, mac_stop, current_app_info,
                   mac_op, notMacos>>

\* the for loop asks the iterator for the next line: it yields a line, or
\* ends once the killed child's output is closed and drained
MacReadLine ==
    /\ reader_pc = "read"
    /\ IF mac_pipe # << >>
       THEN /\ mac_line' = Some(Head(mac_pipe))
            /\ mac_pipe' = Tail(mac_pipe)
            /\ reader_pc' = "check"
            /\ mac_op' = [mac_op EXCEPT !.last = "line"]
       ELSE /\ child = "killed"
            /\ reader_pc' = "exited"
            /\ mac_op' = [mac_op EXCEPT !.last = "eof"]
            /\ UNCHANGED <<mac_line, mac_pipe>>
    /\ UNCHANGED <<child, mac_stop, current_app_info, notMacos>>

\* the try_recv at the head of the loop body
MacCheck ==
    /\ reader_pc = "check"
    /\ IF try_recv(mac_stop)
       THEN /\ reader_pc' = "exited"
            /\ mac_stop' = "received"
            /\ mac_line' = None
            /\ mac_op' = [mac_op EXCEPT !.last = "stopped"]
       ELSE /\ reader_pc' = "publish"
            /\ UNCHANGED <<mac_stop, mac_line, mac_op>>
    /\ UNCHANGED <<mac_pipe, child, current_app_info, notMacos>>

\* the rest of the loop body: unwrap the line, parse it, store it
MacPublish ==
    /\ reader_pc = "publish"
    /\ LET parsed == from_str(Unwrap(mac_line))
       IN  IF parsed.kind = "ok"
           THEN /\ current_app_info' = Some(parsed.value)
                /\ reader_pc' = "read"
                /\ mac_op' =
                       [last |-> "published",
                        since_stop |->
                            IF mac_stop # "none" THEN mac_op.since_stop + 1
                            ELSE mac_op.since_stop]
           ELSE /\ reader_pc' = "panicked"
                /\ mac_op' = [mac_op EXCEPT !.last = "panicked"]
                /\ UNCHANGED current_app_info
    /\ mac_line' = None
    /\ UNCHANGED <<mac_pipe, child, mac_stop, notMacos>>

\* Drop for MacosRunner, first statement: stop_signal.send(())
DropSend ==
    /\ mac_stop = "none"
    /\ mac_stop' = "sent"
    /\ UNCHANGED <<mac_pipe, child, reader_pc, mac_line, current_app_info,
                   mac_op, notMacos>>

\* Drop for MacosRunner, second statement: process.kill()
DropKill ==
    /\ mac_stop # "none"
    /\ child = "running"
    /\ child' = "killed"
    /\ UNCHANGED <<mac_pipe, reader_pc, mac_line, mac_stop, current_app_info,
                   mac_op, notMacos>>

MacosNext == MacEmit \/ MacReadLine \/ MacCheck \/ MacPublish \/ DropSend
                \/ DropKill
(***************************************************************************)
(* Shared-cell locks, statement by statement (wayland_idle.rs,             *)
(* wayland_wlr.rs, kde.rs, macos.rs)                                       *)
(***************************************************************************)

Threads ==
    {"idle_pump", "window_pump", "kde_callback", "mac_reader", "foreground"}

\* the shared cells, each behind its own Mutex
Cells ==
    {"current_idle_status", "current_window_data", "active_window",
     "current_app_info"}

\* the statements of the model: a call that can block, taking a cell's
\* lock, assigning or copying the cell's value, dropping the guard
Blocking(name) == [kind |-> "call", name |-> name]
Lock(cell) == [kind |-> "lock", cell |-> cell]
Use(cell) == [kind |-> "use", cell |-> cell]
Unlock(cell) == [kind |-> "unlock", cell |-> cell]

\* a pump loop that sleeps before it drops the guard
pump_loop_sleeps_locked(cell) ==
    <<Blocking("roundtrip"), Lock(cell), Use(cell), Blocking("sleep"),
      Unlock(cell)>>

\* the loop body of the two Wayland pumps: run_iteration, then in the Ok arm
\* blocking_lock, the assignment and the end of the arm, then the sleep
pump_loop(cell) ==
    <<Blocking("roundtrip"), Lock(cell), Use(cell), Unlock(cell),
      Blocking("sleep")>>

\* notify_active_window: cache and provider lookup, lock, the assignments,
\* end of the function
notify_active_window ==
    <<Blocking("get_extra_info"), Lock("active_window"),
      Use("active_window"), Unlock("active_window")>>

\* the loop body of the macOS reader thread: the iterator reads a line, the
\* line is parsed, lock, the assignment, end of the body
reader_loop ==
    <<Blocking("read_line"), Lock("current_app_info"),
      Use("current_app_info"), Unlock("current_app_info")>>

\* the polls of the foreground thread
Polls ==
    [wayland_get_active_window_data |->
         <<Lock("current_window_data"), Use("current_window_data"),
           Unlock("current_window_data")>>,
     is_idle |->
         <<Lock("current_idle_status"), Use("current_idle_status"),
           Unlock("current_idle_status")>>,
     kde_get_active_window_data |->
         <<Lock("active_window"), Use("active_window"),
           Unlock("active_window")>>,
     macos_get_active_window_data |->
         <<Lock("current_app_info"), Use("current_app_info"),
           Unlock("current_app_info"), Blocking("refresh_processes")>>]

\* the statements of thread t, the foreground making the poll `call`
Program(t, call) ==
    CASE t = "idle_pump" -> pump_loop("current_idle_status")
      [] t = "window_pump" -> pump_loop("current_window_data")
      [] t = "kde_callback" -> notify_active_window
      [] t = "mac_reader" -> reader_loop
      [] OTHER -> IF call = "none" THEN << >> ELSE Polls[call]

\* the Err arm of a pump's match: from run_iteration straight to the sleep
ErrArm(t) == IF t \in {"idle_pump", "window_pump"} THEN {5} ELSE {}

\* the cells whose lock thread t holds
held(t, holder) == {c \in Cells : holder[c] = t}

\* the threads exist, none is inside its body, no lock is held
LocksInit ==
    /\ thread_at = [t \in Threads |-> 0]
    /\ lock_holder = [l \in Cells |-> "free"]
    /\ fg_call = "none"

\* the foreground starts a poll
Poll ==
    /\ thread_at["foreground"] = 0
    /\ \E call \in DOMAIN Polls : fg_call' = call
    /\ thread_at' = [thread_at EXCEPT !["foreground"] = 1]
    /\ UNCHANGED <<lock_holder, notLocks>>

\* a worker enters its loop body or callback
Enter ==
    /\ \E t \in Threads \ {"foreground"} :
           /\ thread_at[t] = 0
           /\ thread_at' = [thread_at EXCEPT ![t] = 1]
    /\ UNCHANGED <<lock_holder, fg_call, notLocks>>

\* thread t runs its next statement
Statement(t) ==
    /\ thread_at[t] > 0
    /\ LET prog == Program(t, fg_call)
           i == thread_at[t]
           s == prog[i]
           after == IF i = Len(prog) THEN 0 ELSE i + 1
       IN  /\ CASE s.kind = "lock" ->
                       /\ lock_available(lock_holder[s.cell])
                       /\ lock_holder' = [lock_holder EXCEPT ![s.cell] = t]
                       /\ thread_at' = [thread_at EXCEPT ![t] = after]
                [] s.kind = "unlock" ->
                       /\ lock_holder' =
                              [lock_holder EXCEPT ![s.cell] = "free"]
                       /\ thread_at' = [thread_at EXCEPT ![t] = after]
                [] s.kind = "call" /\ i = 1 ->
                       /\ \E to \in {after} \cup ErrArm(t) :
                              thread_at' = [thread_at EXCEPT ![t] = to]
                       /\ UNCHANGED lock_holder
                [] OTHER ->
                       /\ thread_at' = [thread_at EXCEPT ![t] = after]
                       /\ UNCHANGED lock_holder
    /\ fg_call' = IF t = "foreground" /\ thread_at'[t] = 0 THEN "none"
                  ELSE fg_call
    /\ UNCHANGED notLocks

Run == \E t \in Threads : Statement(t)

LocksNext == Poll \/ Enter \/ Run
(***************************************************************************)
(* The X11 backend's connection (x11.rs)                                   *)
(***************************************************************************)

\* a connection with the three atoms interned on it; connections are
\* numbered in the order they are established
X11WindowData(connection) ==
    [connection |-> connection, atoms |-> connection]

\* connection.has_error().is_ok()
has_error_is_ok(data, broken) == data.connection \notin broken

\* try_reload_manager: connect and intern the atoms, `?` on every failure
try_reload_manager(connects, up) ==
    IF up THEN Ok(X11WindowData(connects + 1)) ELSE Err("connect")

\* try_get_data: the held data is taken out of self; it is used if its
\* connection is healthy, a new one is established otherwise
try_get_data(data, broken, connects, up) ==
    LET taken == {v \in data : has_error_is_ok(v, broken)}
    IN  [data |-> None,
         result |-> IF taken # None THEN Ok(Unwrap(taken))
                    ELSE try_reload_manager(connects, up)]

\* get_active_window_data: the data is put back whatever the query returned
x11_get_active_window_data(data, broken, connects, up, inner) ==
    LET got == try_get_data(data, broken, connects, up)
    IN  IF got.result.kind = "err"
        THEN [data |-> got.data, ran_on |-> None, ret |-> "err"]
        ELSE [data |-> Some(got.result.value),
              ran_on |-> Some(got.result.value.connection),
              ret |-> inner]

\* is_idle: the data is a local of the call and is dropped when it returns
x11_is_idle(data, broken, connects, up, reply) ==
    LET got == try_get_data(data, broken, connects, up)
    IN  IF got.result.kind = "err"
        THEN [data |-> got.data, ran_on |-> None, ret |-> "err"]
        ELSE [data |-> got.data,
              ran_on |-> Some(got.result.value.connection),
              ret |-> reply]

\* LinuxWindowManager::new
X11Init ==
    /\ x11_data = None
    /\ x11_broken = {}
    /\ x11_connects = 0
    /\ x11_up \in BOOLEAN
    /\ x11_op = [op |-> "new", ran_on |-> None, ret |-> "ok", tick |-> 0]

\* the effect of a poll on the manager and on the count of connections
X11Polled(op, after) ==
    /\ x11_data' = after.data
    /\ x11_connects' =
           IF after.ran_on # None /\ Unwrap(after.ran_on) > x11_connects
           THEN Unwrap(after.ran_on) ELSE x11_connects
    /\ x11_op' = [op |-> op, ran_on |-> after.ran_on, ret |-> after.ret,
                  tick |-> 1 - x11_op.tick]
    /\ UNCHANGED <<x11_broken, x11_up, notX11>>

X11GetActiveWindowData ==
    /\ x11_connects < MaxConnects
    /\ \E inner \in {"ok", "err"} :
           X11Polled("get_active_window_data",
                     x11_get_active_window_data(x11_data, x11_broken,
                                                x11_connects, x11_up, inner))

X11IsIdle ==
    /\ x11_connects < MaxConnects
    /\ \E reply \in {"ok", "err"} :
           X11Polled("is_idle",
                     x11_is_idle(x11_data, x11_broken, x11_connects, x11_up,
                                 reply))

\* an established connection breaks
X11Break ==
    /\ \E c \in (1..x11_connects) \ x11_broken :
           x11_broken' = x11_broken \cup {c}
    /\ UNCHANGED <<x11_data, x11_connects, x11_up, x11_op, notX11>>

\* the X server goes away or comes back
X11Server ==
    /\ x11_up' = ~x11_up
    /\ UNCHANGED <<x11_data, x11_broken, x11_connects, x11_op, notX11>>

X11Next == X11GetActiveWindowData \/ X11IsIdle \/ X11Break \/ X11Server
(***************************************************************************)
(* The raw idle-time comparisons (win.rs, gnome.rs, x11.rs)                *)
(***************************************************************************)

RECURSIVE Pow2(_)
Pow2(n) == IF n = 0 THEN 1 ELSE 2 * Pow2(n - 1)

\* u32::MAX, and the values of a u64
u32_MAX == Pow2(DwordBits) - 1
U64 == 0..(Pow2(TickBits) - 1)

\* std::time::Duration: whole seconds and the part of a second, in units
Durations == [secs : 0..MaxSeconds, sub : 0..(UnitsPerSecond - 1)]

\* Duration::as_millis, in units
as_millis(duration) == duration.secs * UnitsPerSecond + duration.sub

\* a - b on u64: with overflow checks an underflow panics, without them it
\* wraps
sub_u64(a, b, overflow_checks) ==
    IF a >= b THEN Ok(a - b)
    ELSE IF overflow_checks THEN Panic
    ELSE Ok((a - b + Pow2(TickBits)) % Pow2(TickBits))

\* get_idle_time without the saturation
get_idle_time_unsaturated(is_success, tick_count, dwTime, overflow_checks) ==
    IF ~is_success THEN Err("idle time")
    ELSE sub_u64(tick_count, dwTime, overflow_checks)

\* win.rs get_idle_time, for the outcome of GetLastInputInfo, the tick it
\* stored and the value of GetTickCount64
get_idle_time(is_success, tick_count, dwTime, overflow_checks) ==
    IF ~is_success THEN Err("idle time")
    ELSE LET duration == sub_u64(tick_count, dwTime, overflow_checks)
         IN  IF duration.kind # "ok" THEN duration
             ELSE IF duration.value > u32_MAX THEN Ok(u32_MAX)
             ELSE Ok(duration.value)

\* WindowsWindowManager::is_idle
win_is_idle(idle_time, idle_timeout) ==
    IF idle_time.kind # "ok" THEN idle_time
    ELSE Ok(idle_time.value > as_millis(idle_timeout))

\* GnomeWindowWatcher::is_idle, for the idle time the extension returned
gnome_is_idle(data, idle_timeout) == Ok(data > as_millis(idle_timeout))

\* the comparison at the end of LinuxWindowManager::is_idle, for the
\* ms_since_user_input of the reply
x11_idle_reply(ms_since_user_input, idle_timeout) ==
    Ok(ms_since_user_input > as_millis(idle_timeout))

\* no call made yet.  The calls keep no state and do not depend on one
\* another, so a behaviour makes one of them
RawInit ==
    raw_op = [op |-> "new", tick_count |-> 0, dwTime |-> 0, d |-> 0,
              idle_timeout |-> [secs |-> 0, sub |-> 0], ret |-> Ok(0)]

\* get_idle_time is called
GetIdleTime ==
    /\ raw_op.op = "new"
    /\ \E is_success \in BOOLEAN, tick_count \in U64, dwTime \in 0..u32_MAX,
          overflow_checks \in BOOLEAN :
           raw_op' = [op |-> "get_idle_time", tick_count |-> tick_count,
                      dwTime |-> dwTime, d |-> 0,
                      idle_timeout |-> [secs |-> 0, sub |-> 0],
                      ret |-> get_idle_time(is_success, tick_count, dwTime,
                                            overflow_checks)]
    /\ UNCHANGED notRaw

\* is_idle of the Windows backend, d after the last input
WinIsIdle ==
    /\ raw_op.op = "new"
    /\ \E dwTime \in 0..u32_MAX, d \in 0..u32_MAX,
          idle_timeout \in Durations :
           /\ dwTime + d \in U64
           /\ raw_op' = [op |-> "win_is_idle", tick_count |-> dwTime + d,
                         dwTime |-> dwTime, d |-> d,
                         idle_timeout |-> idle_timeout,
                         ret |-> win_is_idle(
                                     get_idle_time(TRUE, dwTime + d, dwTime,
                                                   TRUE),
                                     idle_timeout)]
    /\ UNCHANGED notRaw

\* is_idle of the GNOME backend, the extension answering d
GnomeIsIdle ==
    /\ raw_op.op = "new"
    /\ \E d \in 0..u32_MAX, idle_timeout \in Durations :
           raw_op' = [op |-> "gnome_is_idle", tick_count |-> 0, dwTime |-> 0,
                      d |-> d, idle_timeout |-> idle_timeout,
                      ret |-> gnome_is_idle(d, idle_timeout)]
    /\ UNCHANGED notRaw

\* is_idle of the X11 backend, the screen saver extension answering d
X11IdleReply ==
    /\ raw_op.op = "new"
    /\ \E d \in 0..u32_MAX, idle_timeout \in Durations :
           raw_op' = [op |-> "x11_is_idle", tick_count |-> 0, dwTime |-> 0,
                      d |-> d, idle_timeout |-> idle_timeout,
                      ret |-> x11_idle_reply(d, idle_timeout)]
    /\ UNCHANGED notRaw

RawNext == GetIdleTime \/ WinIsIdle \/ GnomeIsIdle \/ X11IdleReply
(***************************************************************************)
(* Specifications: each component runs with the other ones at rest          *)
(***************************************************************************)

CacheAtRest ==
    /\ cache = << >>
    /\ config = [ttl |-> 0, max_size |-> 0]
    /\ clock = 0
    /\ cache_ret = None
    /\ cache_op = [op |-> "new", key |-> "a", data |-> "v1", now |-> 0,
                   sweep |-> 0, present |-> FALSE, removed |-> {}]
    /\ last_set = [k \in Keys |-> None]

TrackerAtRest ==
    /\ tracker = new(0, 0)
    /\ status = None
    /\ tracker_op = [op |-> "new", now |-> 0, seconds |-> 0]
    /\ since_mark = [mark |-> "none", reads |-> 0, polled |-> FALSE]

ConstructAtRest ==
    /\ features = {}
    /\ env = [x11 |-> FALSE, gnome |-> FALSE]
    /\ pc = "done"
    /\ idx = 1
    /\ tried = << >>
    /\ outcome = [c \in Candidates |-> "none"]
    /\ effects = {}
    /\ attempts = << >>
    /\ slept = 0
    /\ warned = {}
    /\ returned = [kind |-> "none", inner |-> None]
    /\ kwin_script = [is_loaded |-> FALSE, temp_file |-> FALSE,
                      registered |-> FALSE, running |-> FALSE]

GnomeAtRest ==
    /\ gnome_watcher = [last_title |-> "", last_app_id |-> "",
                        desktop_info_cache |-> << >>]
    /\ desktop_entries = {}
    /\ gnome_clock = 0
    /\ gnome_ret = None
    /\ gnome_op = [op |-> "new", resp |-> None, now |-> 0, forwards |-> 0,
                   remote_calls |-> 0, provider_calls |-> 0,
                   after_err |-> FALSE]

PumpAtRest ==
    /\ idle_state = new(0, 0)
    /\ pending = << >>
    /\ native_idle = FALSE
    /\ current_idle_status = None
    /\ pump_pc = "exited"
    /\ stop_signal = TRUE
    /\ pump_clock = 0
    /\ is_idle_ret = None
    /\ is_idle_op = [op |-> "new", published |-> FALSE]
    /\ pump_op = [iter |-> "none", after_err |-> FALSE, since_stop |-> 0]

KdeAtRest ==
    /\ active_window = ActiveWindow_new
    /\ kde_lock = "free"
    /\ callback = CallbackIdle
    /\ reader = ReaderIdle
    /\ kde_cache = << >>
    /\ kde_entries = {}
    /\ kde_clock = 0
    /\ invocations = 0
    /\ kde_ret = None
WindowAtRest ==
    /\ toplevel_state = ToplevelState_new
    /\ wl_pending = << >>
    /\ wl_finished = FALSE
    /\ current_window_data = None
    /\ window_pc = "exited"
    /\ window_stop = TRUE
    /\ window_ret = None
    /\ window_op = [iter |-> "none", since_stop |-> 0]
    /\ window_poll = [op |-> "new", after_finished |-> FALSE]
MacosAtRest ==
    /\ mac_pipe = << >>
    /\ child = "killed"
    /\ reader_pc = "exited"
    /\ mac_line = None
    /\ mac_stop = "received"
    /\ current_app_info = None
    /\ mac_op = [last |-> "none", since_stop |-> 0]
LocksAtRest ==
    /\ thread_at = [t \in Threads |-> 0]
    /\ lock_holder = [l \in Cells |-> "free"]
    /\ fg_call = "none"
X11AtRest ==
    /\ x11_data = None
    /\ x11_broken = {}
    /\ x11_connects = 0
    /\ x11_up = TRUE
    /\ x11_op = [op |-> "new", ran_on |-> None, ret |-> "ok", tick |-> 0]
RawAtRest ==
    raw_op = [op |-> "new", tick_count |-> 0, dwTime |-> 0, d |-> 0,
              idle_timeout |-> [secs |-> 0, sub |-> 0], ret |-> Ok(0)]
\* the two Wayland pumps: one of them runs, the other one is at rest
PumpsInit ==
    \/ PumpInit /\ WindowAtRest
    \/ WindowInit /\ PumpAtRest

PumpsNext == PumpNext \/ WindowNext

SpecPumpsInit ==
    PumpsInit /\ CacheAtRest /\ TrackerAtRest /\ ConstructAtRest
        /\ GnomeAtRest /\ KdeAtRest /\ MacosAtRest /\ LocksAtRest
        /\ X11AtRest /\ RawAtRest
SpecPumps == SpecPumpsInit /\ [][PumpsNext]_vars

SpecCacheInit ==
    CacheInit /\ TrackerAtRest /\ ConstructAtRest /\ GnomeAtRest
        /\ PumpAtRest /\ KdeAtRest /\ WindowAtRest /\ MacosAtRest
        /\ LocksAtRest /\ X11AtRest /\ RawAtRest
SpecCache == SpecCacheInit /\ [][CacheNext]_vars

SpecTrackerInit ==
    TrackerInit /\ CacheAtRest /\ ConstructAtRest /\ GnomeAtRest
        /\ PumpAtRest /\ KdeAtRest /\ WindowAtRest /\ MacosAtRest
        /\ LocksAtRest /\ X11AtRest /\ RawAtRest
SpecTracker == SpecTrackerInit /\ [][TrackerNext]_vars

SpecConstructInit ==
    ConstructInit /\ CacheAtRest /\ TrackerAtRest /\ GnomeAtRest
        /\ PumpAtRest /\ KdeAtRest /\ WindowAtRest /\ MacosAtRest
        /\ LocksAtRest /\ X11AtRest /\ RawAtRest
SpecConstruct == SpecConstructInit /\ [][ConstructNext]_vars

SpecGnomeInit ==
    GnomeInit /\ CacheAtRest /\ TrackerAtRest /\ ConstructAtRest
        /\ PumpAtRest /\ KdeAtRest /\ WindowAtRest /\ MacosAtRest
        /\ LocksAtRest /\ X11AtRest /\ RawAtRest
SpecGnome == SpecGnomeInit /\ [][GnomeNext]_vars

SpecPumpInit ==
    PumpInit /\ CacheAtRest /\ TrackerAtRest /\ ConstructAtRest
        /\ GnomeAtRest /\ KdeAtRest /\ WindowAtRest /\ MacosAtRest
        /\ LocksAtRest /\ X11AtRest /\ RawAtRest
SpecPump == SpecPumpInit /\ [][PumpNext]_vars

SpecKdeInit ==
    KdeInit /\ CacheAtRest /\ TrackerAtRest /\ ConstructAtRest
        /\ GnomeAtRest /\ PumpAtRest /\ WindowAtRest /\ MacosAtRest
        /\ LocksAtRest /\ X11AtRest /\ RawAtRest
SpecKde == SpecKdeInit /\ [][KdeNext]_vars

SpecWindowInit ==
    WindowInit /\ CacheAtRest /\ TrackerAtRest /\ ConstructAtRest
        /\ GnomeAtRest /\ PumpAtRest /\ KdeAtRest /\ MacosAtRest
        /\ LocksAtRest /\ X11AtRest /\ RawAtRest
SpecWindow == SpecWindowInit /\ [][WindowNext]_vars

SpecMacosInit ==
    MacosInit /\ CacheAtRest /\ TrackerAtRest /\ ConstructAtRest
        /\ GnomeAtRest /\ PumpAtRest /\ KdeAtRest /\ WindowAtRest
        /\ LocksAtRest /\ X11AtRest /\ RawAtRest
SpecMacos == SpecMacosInit /\ [][MacosNext]_vars

SpecLocksInit ==
    LocksInit /\ CacheAtRest /\ TrackerAtRest /\ ConstructAtRest
        /\ GnomeAtRest /\ PumpAtRest /\ KdeAtRest /\ WindowAtRest
        /\ MacosAtRest /\ X11AtRest /\ RawAtRest
SpecLocks == SpecLocksInit /\ [][LocksNext]_vars

SpecX11Init ==
    X11Init /\ CacheAtRest /\ TrackerAtRest /\ ConstructAtRest
        /\ GnomeAtRest /\ PumpAtRest /\ KdeAtRest /\ WindowAtRest
        /\ MacosAtRest /\ LocksAtRest /\ RawAtRest
SpecX11 == SpecX11Init /\ [][X11Next]_vars

SpecRawInit ==
    RawInit /\ CacheAtRest /\ TrackerAtRest /\ ConstructAtRest
        /\ GnomeAtRest /\ PumpAtRest /\ KdeAtRest /\ WindowAtRest
        /\ MacosAtRest /\ LocksAtRest /\ X11AtRest
SpecRaw == SpecRawInit /\ [][RawNext]_vars

(***************************************************************************)
(* Claims about SimpleCache                                                *)
(***************************************************************************)

\* C1: a get(k) at time t returns the value of the latest set(k, v), made at
\* time T, exactly when t - T < ttl; at t - T >= ttl (the boundary included),
\* and for a key never set, it returns nothing.
C1_Expiry ==
    cache_op.op = "get" =>
        IF last_set[cache_op.key] = None
        THEN cache_ret = None
        ELSE LET e == Unwrap(last_set[cache_op.key])
             IN  cache_ret = IF cache_op.now - e.timestamp < config.ttl
                             THEN Some(e.data)
                             ELSE None

\* a get exactly at T + ttl, ttl > 0, that returned nothing
C1_Witness ==
    /\ cache_op.op = "get"
    /\ config.ttl > 0
    /\ last_set[cache_op.key] # None
    /\ cache_op.now - Unwrap(last_set[cache_op.key]).timestamp = config.ttl
    /\ cache_ret = None

\* C2: a set that leaves the table with more than max_size entries removes
\* every expired entry and no unexpired one (whatever the size afterwards);
\* a set that leaves the table at or below max_size removes nothing.
C2_Step ==
    cache_op'.op = "set" =>
        LET inserted == insert(cache, cache_op'.key,
                               CacheEntry(cache_op'.data, cache_op'.now))
        IN  /\ DOMAIN cache' \subseteq DOMAIN inserted
            /\ \A k \in DOMAIN cache' : cache'[k] = inserted[k]
            /\ IF Cardinality(DOMAIN inserted) > config.max_size
               THEN \A k \in DOMAIN inserted :
                        k \in DOMAIN cache' <=>
                            cache_op'.sweep - inserted[k].timestamp < config.ttl
               ELSE DOMAIN cache' = DOMAIN inserted

C2_EvictionSweep == [][C2_Step]_vars

\* a set whose sweep removed an entry and left the table above max_size
C2_Witness ==
    /\ cache_op.op = "set"
    /\ cache_op.removed # {}
    /\ Cardinality(DOMAIN cache) > config.max_size

\* C3: get(k) removes exactly the entry of k when k is present and expired,
\* and otherwise leaves the whole table unchanged.
C3_Step ==
    cache_op'.op = "get" =>
        LET k == cache_op'.key
        IN  IF k \in DOMAIN cache
               /\ cache_op'.now - cache[k].timestamp >= config.ttl
            THEN cache' = [j \in DOMAIN cache \ {k} |-> cache[j]]
            ELSE cache' = cache

C3_GetFrame == [][C3_Step]_vars

\* a get that removed its expired key while another expired entry stayed
C3_Witness ==
    /\ cache_op.op = "get"
    /\ cache_op.removed = {cache_op.key}
    /\ \E j \in DOMAIN cache : cache_op.now - cache[j].timestamp >= config.ttl

\* C4: after set(k, v) at time T on a key already present, the next call
\* get(k) at time t returns v exactly when t - T < ttl: the validity period
\* restarts at the overwrite.
C4_Step ==
    (/\ cache_op.op = "set"
     /\ cache_op.present
     /\ cache_op'.op = "get"
     /\ cache_op'.key = cache_op.key)
    => cache_ret' = IF cache_op'.now - cache_op.now < config.ttl
                    THEN Some(cache_op.data)
                    ELSE None

C4_Overwrite == [][C4_Step]_vars

\* a get that returned the overwriting value at a time when the entry that
\* was replaced would have expired
C4_Witness ==
    /\ cache_op.op = "get"
    /\ last_set[cache_op.key] # None
    /\ LET e == Unwrap(last_set[cache_op.key])
       IN  /\ cache_ret = Some(e.data)
           /\ e.replaced # None
           /\ cache_op.now - Unwrap(e.replaced) >= config.ttl

(***************************************************************************)
(* Claims about the idle Tracker                                           *)
(***************************************************************************)

IsRead(op) == op.op \in {"get_with_last_input", "get_reactive"}

\* the idle/active value the latest returned status reported (Active before
\* the first read)
ReportedKind(st) == IF st = None THEN "Active" ELSE Unwrap(st).kind

\* C5: push protocol: the get_reactive that follows a mark_idle returns Idle
\* with changed = TRUE; a get_reactive that directly follows a get_reactive
\* which returned Idle returns Idle with changed = FALSE and, when its now is
\* not earlier, a duration that is not smaller.
C5_Step ==
    /\ (tracker_op.op = "mark_idle" /\ tracker_op'.op = "get_reactive")
       => /\ Unwrap(status').kind = "Idle"
          /\ Unwrap(status').changed
    /\ (/\ tracker_op.op = "get_reactive"
        /\ Unwrap(status).kind = "Idle"
        /\ tracker_op'.op = "get_reactive")
       => /\ Unwrap(status').kind = "Idle"
          /\ ~Unwrap(status').changed
          /\ tracker_op'.now >= tracker_op.now
             => Unwrap(status').duration >= Unwrap(status).duration

C5_PushProtocol == [][C5_Step]_vars

\* the second get_reactive after a mark_idle, taken later than the first
C5_Witness ==
    /\ since_mark = [mark |-> "idle", reads |-> 2, polled |-> FALSE]
    /\ tracker_op.op = "get_reactive"
    /\ Unwrap(status).kind = "Idle"
    /\ ~Unwrap(status).changed
    /\ Unwrap(status).duration > 0

\* C6: a returned status carries changed = TRUE only when the value it
\* reports differs from the value the previously returned status reported
\* (Active before the first read).
C6_Step ==
    IsRead(tracker_op') =>
        (Unwrap(status').changed => Unwrap(status').kind # ReportedKind(status))

C6_ChangedOnlyOnTransition == [][C6_Step]_vars

\* C7 as stated: every read leaves is_changed = FALSE, and the second of two
\* consecutive reads carries changed = FALSE.
C7_OriginalStep ==
    IsRead(tracker_op') =>
        /\ ~tracker'.is_changed
        /\ IsRead(tracker_op) => ~Unwrap(status').changed

C7_Original == [][C7_OriginalStep]_vars

\* C7 amended: every read leaves is_changed = FALSE, and the second of two
\* consecutive reads carries changed = TRUE exactly when that read is itself
\* the call that flips the idle flag (a get_with_last_input).
C7_Step ==
    IsRead(tracker_op') =>
        /\ ~tracker'.is_changed
        /\ IsRead(tracker_op) =>
              /\ Unwrap(status').changed <=> tracker'.is_idle # tracker.is_idle
              /\ Unwrap(status').changed
                 => tracker_op'.op = "get_with_last_input"

C7_LatchReset == [][C7_Step]_vars

\* a read that reported the change of a mark_idle, followed by a
\* get_reactive that no longer reports it
C7_Witness ==
    /\ since_mark = [mark |-> "idle", reads |-> 2, polled |-> FALSE]
    /\ tracker_op.op = "get_reactive"
    /\ ~Unwrap(status).changed
    /\ ~tracker.is_changed

\* C8: with an idle timeout of a whole number n of seconds,
\* get_with_last_input(now, n) returns Idle and, for n >= 1,
\* get_with_last_input(now, n - 1) returns Active, on an active and on an
\* idle tracker alike.
C8_Boundary ==
    tracker_op.op = "get_with_last_input" =>
        /\ tracker.idle_timeout = seconds(tracker_op.seconds)
           => Unwrap(status).kind = "Idle"
        /\ tracker.idle_timeout = seconds(tracker_op.seconds + 1)
           => Unwrap(status).kind = "Active"

\* the tie: seconds_since_input equal to a timeout of at least one second,
\* on a tracker that was active, returned Idle with the change reported
C8_Witness ==
    /\ tracker_op.op = "get_with_last_input"
    /\ tracker_op.seconds >= 1
    /\ tracker.idle_timeout = seconds(tracker_op.seconds)
    /\ since_mark.mark = "not_idle"
    /\ since_mark.reads = 1
    /\ Unwrap(status).kind = "Idle"
    /\ Unwrap(status).changed

\* C9: after get_with_last_input(now, s), last_input_time = now - s, the
\* tracker is idle exactly when s seconds >= idle_timeout, and the returned
\* status carries changed = TRUE when the call flipped the idle flag.
C9_Step ==
    tracker_op'.op = "get_with_last_input" =>
        /\ tracker'.last_input_time = tracker_op'.now - seconds(tracker_op'.seconds)
        /\ tracker'.is_idle <=> seconds(tracker_op'.seconds) >= tracker.idle_timeout
        /\ tracker'.is_idle # tracker.is_idle => Unwrap(status').changed

C9_PolledState == [][C9_Step]_vars

\* C10: a get_reactive(now) on an active tracker returns Active and leaves
\* last_input_time = max(previous last_input_time, now - idle_timeout,
\* idle_end); after mark_not_idle(t0), get_reactive(t0 + idle_timeout - 1s)
\* keeps last_input_time = t0, and a further get_reactive(t0 + idle_timeout
\* + 1s) yields last_input_time = now - idle_timeout.
C10_Step ==
    tracker_op'.op = "get_reactive" /\ ~tracker.is_idle =>
        LET T == tracker.idle_timeout
            now == tracker_op'.now
            lower == Max2(tracker.last_input_time, now - T)
            expected == IF tracker.idle_end = None
                        THEN lower
                        ELSE Max2(lower, Unwrap(tracker.idle_end))
        IN  /\ tracker'.last_input_time = expected
            /\ Unwrap(status').kind = "Active"
            /\ Unwrap(status').last_input_time = expected
            /\ (tracker_op.op = "mark_not_idle"
                /\ now = tracker_op.now + T - seconds(1))
               => tracker'.last_input_time = tracker_op.now
            /\ (/\ tracker_op.op = "get_reactive"
                /\ tracker.idle_end = Some(tracker.last_input_time)
                /\ now = tracker.last_input_time + T + seconds(1))
               => tracker'.last_input_time = now - T

C10_ReactiveClamp == [][C10_Step]_vars

\* the second get_reactive of the scenario: one second past the timeout after
\* a mark_not_idle, Active with last_input_time moved up to now - idle_timeout
C10_Witness ==
    /\ since_mark = [mark |-> "not_idle", reads |-> 2, polled |-> FALSE]
    /\ tracker_op.op = "get_reactive"
    /\ tracker.idle_end # None
    /\ tracker.idle_timeout >= seconds(1)
    /\ tracker_op.now = Unwrap(tracker.idle_end) + tracker.idle_timeout + seconds(1)
    /\ Unwrap(status).kind = "Active"
    /\ ~Unwrap(status).changed
    /\ tracker.last_input_time = tracker_op.now - tracker.idle_timeout
    /\ tracker.last_input_time > Unwrap(tracker.idle_end)

\* two status reads in a row, the later one at a time not before the earlier,
\* that both reported Idle
IdleReadPair ==
    /\ IsRead(tracker_op)
    /\ IsRead(tracker_op')
    /\ tracker_op'.now >= tracker_op.now
    /\ ReportedKind(status) = "Idle"
    /\ ReportedKind(status') = "Idle"

\* C11 as stated: while the tracker remains idle across consecutive reads
\* with non-decreasing now, whichever read produces them, the reported
\* duration never decreases.
C11_OriginalStep ==
    IdleReadPair => Unwrap(status').duration >= Unwrap(status).duration

C11_Original == [][C11_OriginalStep]_vars

\* C11: while the tracker remains idle across consecutive reads with
\* non-decreasing now, the reported duration never decreases when the later
\* read is a get_reactive; a get_with_last_input reports the duration its
\* caller supplied, which may be shorter than the one reported before.
C11_Step ==
    (IdleReadPair /\ tracker_op'.op = "get_reactive") =>
        Unwrap(status').duration >= Unwrap(status).duration

C11_DurationMonotone == [][C11_Step]_vars

\* a get_reactive that followed a polled read of an idle tracker at a later
\* time and reported a longer duration
C11_Witness ==
    /\ tracker_op.op = "get_reactive"
    /\ since_mark.polled
    /\ since_mark.reads >= 2
    /\ ReportedKind(status) = "Idle"
    /\ tracker.idle_timeout >= seconds(1)
    /\ Unwrap(status).duration > tracker.idle_timeout
    /\ Unwrap(status).duration = tracker_op.now - tracker.last_input_time

\* C12: mark_idle sets the tracker idle and latches the change but leaves
\* last_input_time, idle_end and idle_timeout unchanged, whatever its now;
\* get_reactive on an idle tracker likewise leaves last_input_time and
\* idle_end unchanged.
C12_Step ==
    /\ tracker_op'.op = "mark_idle" =>
            /\ tracker'.is_idle
            /\ tracker'.is_changed
            /\ tracker'.last_input_time = tracker.last_input_time
            /\ tracker'.idle_end = tracker.idle_end
            /\ tracker'.idle_timeout = tracker.idle_timeout
    /\ (tracker_op'.op = "get_reactive" /\ tracker.is_idle) =>
            /\ tracker'.last_input_time = tracker.last_input_time
            /\ tracker'.idle_end = tracker.idle_end

C12_MarkIdleFrame == [][C12_Step]_vars

\* a mark_idle at a time other than last_input_time, after an earlier
\* mark_not_idle had set idle_end
C12_Witness ==
    /\ tracker_op.op = "mark_idle"
    /\ tracker.is_idle
    /\ tracker.is_changed
    /\ tracker.idle_end # None
    /\ tracker_op.now # tracker.last_input_time

(***************************************************************************)
(* Claims about backend selection and construction                         *)
(***************************************************************************)

\* the compiled-in candidates in the order GNOME, KDE, generic Wayland, X11
CompiledInOrder ==
    SelectSeq(<<"gnome", "kde", "wayland", "x11">>, LAMBDA c : c \in features)

\* C13: GenericWindowManager::new tries the compiled-in Linux candidates in
\* the order GNOME, KDE, generic Wayland, X11, selects the first candidate
\* whose construction succeeds, and constructs no later candidate once one
\* has succeeded.
C13_SelectionOrder ==
    /\ Len(tried) <= Len(CompiledInOrder)
    /\ tried = SubSeq(CompiledInOrder, 1, Len(tried))
    /\ \A i \in 1..(Len(tried) - 1) : outcome[tried[i]] = "err"
    /\ \A c \in Candidates :
           outcome[c] = "ok" =>
               /\ c = tried[Len(tried)]
               /\ returned = [kind |-> "ok", inner |-> Some(c)]
    /\ returned.kind = "ok" =>
           /\ tried # << >>
           /\ returned.inner = Some(tried[Len(tried)])
           /\ outcome[tried[Len(tried)]] = "ok"

\* generic Wayland selected after GNOME and KDE failed, X11 compiled in and
\* never constructed
C13_Witness ==
    /\ returned = [kind |-> "ok", inner |-> Some("wayland")]
    /\ tried = <<"gnome", "kde", "wayland">>
    /\ "x11" \in features
    /\ outcome["x11"] = "none"

\* C14: in GenericWindowManager::new a candidate whose construction fails,
\* at whichever step, never ends the selection: the failure is an error
\* value, it is logged, and the next candidate is tried; new returns an
\* error only when every compiled-in candidate has failed.
C14_FailureContinues ==
    /\ \A c \in Candidates : outcome[c] \in {"none", "ok", "err"}
    /\ returned.kind \in {"none", "ok", "err"}
    /\ \A c \in Candidates : outcome[c] = "err" => c \in warned
    /\ returned.kind = "err" => \A c \in features : outcome[c] = "err"
    /\ pc = "done" =>
           \/ returned.kind = "ok"
           \/ \A c \in features : outcome[c] = "err"

\* C16: GnomeWindowWatcher::new makes at most 3 construction attempts, makes
\* a further attempt (after a 3-second backoff) only when the previous one
\* failed, returns the watcher of the first successful attempt, and returns
\* an error only when all 3 attempts failed.
C16_RetryUntilSuccess ==
    /\ Len(attempts) <= 3
    /\ \A i \in 1..(Len(attempts) - 1) : attempts[i] = "err"
    /\ slept = 3 * Cardinality({i \in 1..Len(attempts) : attempts[i] = "err"})
    /\ (outcome["gnome"] = "ok") =>
           \E i \in 1..Len(attempts) : attempts[i] = "ok"
    /\ (outcome["gnome"] = "err" /\ attempts # << >>) =>
           /\ Len(attempts) = 3
           /\ \A i \in 1..3 : attempts[i] = "err"

\* the remote effects of a session-bus constructor: a connection opened, a
\* script unloaded or loaded, a warm-up query made
BusEffects == {"bus_connect", "unload", "load", "warm_up_query"}

\* C17: for both session-bus backends (GNOME and KDE), when the session is
\* X11 (or, for GNOME, the desktop is not GNOME) construction returns an
\* error before any session-bus connection is opened and before any remote
\* call with a side effect is made.
C17_ProbeFirst ==
    /\ (env.x11 \/ ~env.gnome) =>
           /\ \A e \in BusEffects : <<"gnome", e>> \notin effects
           /\ outcome["gnome"] \in {"none", "err"}
    /\ env.x11 =>
           /\ \A e \in BusEffects : <<"kde", e>> \notin effects
           /\ outcome["kde"] \in {"none", "err"}

(***************************************************************************)
(* Claims about the GNOME poll                                             *)
(***************************************************************************)

\* the latest call was a poll whose remote call had outcome `kind`
PolledWith(kind) ==
    /\ gnome_op.op = "get_active_window_data"
    /\ Unwrap(gnome_op.resp).kind = kind

\* C18: when the remote Get call fails with an error whose text contains
\* "No window in focus", get_active_window_data returns Ok with an empty
\* window title and an empty window class (and last-seen title and class
\* set to empty), not an error; any other call error is returned as an
\* error.
C18_NoWindowInFocus ==
    PolledWith("call_err") =>
        IF Unwrap(gnome_op.resp).no_window
        THEN /\ Unwrap(gnome_ret).kind = "ok"
             /\ Unwrap(gnome_ret).value.window_title = ""
             /\ Unwrap(gnome_ret).value.app_identifier = Some("")
             /\ gnome_watcher.last_title = ""
             /\ gnome_watcher.last_app_id = ""
        ELSE Unwrap(gnome_ret).kind = "err"

\* a poll that met "No window in focus" after a window had been seen and
\* enriched
C18_Witness ==
    /\ PolledWith("call_err")
    /\ Unwrap(gnome_op.resp).no_window
    /\ Unwrap(gnome_ret).kind = "ok"
    /\ gnome_watcher.last_title = ""
    /\ gnome_watcher.desktop_info_cache # << >>

\* C19: a poll whose remote call fails because the extension object no
\* longer exists returns the distinguished error "The extension seems to
\* have stopped", and no other failure (generic call error, unparsable
\* payload) is ever reported with that distinguished error.
C19_StoppedOnlyWhenGone ==
    gnome_op.op = "get_active_window_data" =>
        (gnome_ret = Some(Err(Stopped))
            <=> /\ Unwrap(gnome_op.resp).kind = "call_err"
                /\ Unwrap(gnome_op.resp).no_object)

\* the snapshot a poll must return for the window the remote call reported
CorrectSnapshot(resp) ==
    ActiveWindowData(
        resp.title, Some(resp.wm_class),
        IF resp.wm_class \in desktop_entries
        THEN Some(<<"exec", resp.wm_class>>) ELSE None,
        IF resp.wm_class \in desktop_entries
        THEN Some(<<"name", resp.wm_class>>) ELSE None)

\* C20: steady-state polls never retry and never tear the backend down: a
\* failing GNOME poll performs exactly one remote call, the facade forwards
\* exactly one call to the backend and returns its result unchanged, and
\* after the failure the watcher's last-seen title, last-seen class and
\* metadata cache are unchanged, so a later poll whose remote call succeeds
\* returns a correct snapshot.
C20_Step ==
    gnome_op'.op = "get_active_window_data" =>
        LET resp == Unwrap(gnome_op'.resp)
            ret == Unwrap(gnome_ret')
        IN  /\ gnome_op'.forwards = 1
            /\ ret = gnome_get_active_window_data(
                         gnome_watcher, resp, gnome_op'.now,
                         desktop_entries).ret
            /\ ret.kind = "err" =>
                   /\ gnome_op'.remote_calls = 1
                   /\ gnome_watcher' = gnome_watcher
            /\ resp.kind = "ok" => ret = Ok(CorrectSnapshot(resp))

C20_NoRetryNoTeardown == [][C20_Step]_vars

\* a poll that succeeded right after a failed one, for a window other than
\* the last-seen one and with an enriched class
C20_Witness ==
    /\ PolledWith("ok")
    /\ gnome_op.after_err
    /\ Unwrap(gnome_ret).kind = "ok"
    /\ Unwrap(gnome_ret).value.window_title = "doc"
    /\ Unwrap(gnome_ret).value.process_path # None
    /\ gnome_op.provider_calls = 0

(***************************************************************************)
(* Claims about the background-pumped backends                             *)
(***************************************************************************)

\* C15: facade operations never return a defaulted success: every Ok value
\* reflects a value actually obtained from the native source; in
\* particular, on the background-pumped backends, while the idle pump has
\* not yet published any status, is_idle does not return Ok.
C15_NoDefaultedSuccess ==
    (is_idle_op.op = "is_idle" /\ ~is_idle_op.published) =>
        Unwrap(is_idle_ret).kind # "ok"

\* C21: GNOME enrichment is driven by change of the window: a poll whose
\* title and window class both equal the last-seen values makes no call to
\* the enrichment provider; checked here for the second of two successful
\* polls with an identical payload, the provider having an entry for the
\* class or not.
C21_Step ==
    (/\ gnome_op.op = "get_active_window_data"
     /\ gnome_op'.op = "get_active_window_data"
     /\ Unwrap(gnome_op'.resp).kind = "ok"
     /\ gnome_op'.resp = gnome_op.resp
     /\ Unwrap(gnome_op'.resp).title = gnome_watcher.last_title
     /\ Unwrap(gnome_op'.resp).wm_class = gnome_watcher.last_app_id)
        => gnome_op'.provider_calls = 0

C21_EnrichOnChange == [][C21_Step]_vars

\* C22: whenever a KdeWindowManager whose script was loaded is torn down,
\* and whenever KdeWindowManager::new fails after the script was loaded, the
\* injected script is unregistered: an unload call is issued under the fixed
\* script name (an error from it being logged and not propagated).
C22_ScriptReleased ==
    (/\ kwin_script.is_loaded
     /\ \/ pc = "dropped"
        \/ outcome["kde"] \in {"err", "panic"})
        => /\ <<"kde", "drop_unload">> \in effects
           /\ ~kwin_script.registered

(***************************************************************************)
(* Claims about the KDE callback and the foreground read                   *)
(***************************************************************************)

\* C23: a snapshot returned by get_active_window_data on the KDE backend
\* never mixes fields of two focus changes: title, app identifier, process
\* path and app name were all assigned by the same callback invocation (or
\* are all those of the initial record).
C23_SnapshotOfOneCallback ==
    kde_ret # None =>
        \A f, g \in DOMAIN Unwrap(kde_ret).by :
            Unwrap(kde_ret).by[f] = Unwrap(kde_ret).by[g]

\* a read that ran while the second callback was waiting for the lock
\* returned the first callback's fields
C23_Witness ==
    /\ kde_ret # None
    /\ Unwrap(kde_ret).by["caption"] = 1
    /\ callback.pc = "lock"
    /\ callback.id = 2
    /\ active_window.caption.v # callback.locals.caption

(***************************************************************************)
(* Claims about the Wayland toplevel table and the window pump             *)
(***************************************************************************)

SameButFor(s, t, id) ==
    /\ DOMAIN t.windows \ {id} = DOMAIN s.windows \ {id}
    /\ \A h \in DOMAIN s.windows \ {id} : t.windows[h] = s.windows[h]

\* C25: in every reachable state of the toplevel table and for every event:
\* Toplevel adds the handle; State with Activated for a known handle makes
\* it the current window; Closed for a known handle removes it; Title and
\* AppId change only that handle's entry; an event for a handle that is not
\* in the table changes neither the table nor the current-window pointer.
C25_TableMaintenance ==
    \A event \in WlEvents :
        LET s == toplevel_state
            t == toplevel_event(s, event)
            id == event.id
            known == event.kind \notin {"Toplevel", "Finished"}
                         /\ event.id \in DOMAIN s.windows
            unknown == event.kind \notin {"Toplevel", "Finished"}
                           /\ event.id \notin DOMAIN s.windows
        IN  /\ event.kind = "Toplevel" =>
                   /\ id \in DOMAIN t.windows
                   /\ SameButFor(s, t, id)
                   /\ t.current_window_id = s.current_window_id
            /\ (known /\ event.kind = "State" /\ event.activated) =>
                   /\ t.current_window_id = Some(id)
                   /\ t.windows = s.windows
            /\ (known /\ event.kind = "Closed") =>
                   /\ id \notin DOMAIN t.windows
                   /\ SameButFor(s, t, id)
            /\ (known /\ event.kind = "Title") =>
                   /\ t.windows[id] =
                          WlWindowData(s.windows[id].app_id, event.title)
                   /\ SameButFor(s, t, id)
                   /\ t.current_window_id = s.current_window_id
            /\ (known /\ event.kind = "AppId") =>
                   /\ t.windows[id] =
                          WlWindowData(event.app_id, s.windows[id].title)
                   /\ SameButFor(s, t, id)
                   /\ t.current_window_id = s.current_window_id
            /\ unknown => t = s

\* the table was built by events: h1 was created, titled and activated,
\* h2 is not in the table, so that events for a known and for an unknown
\* handle are both covered
C25_Witness ==
    /\ toplevel_state.current_window_id = Some("h1")
    /\ "h1" \in DOMAIN toplevel_state.windows
    /\ toplevel_state.windows["h1"].title = "doc"
    /\ "h2" \notin DOMAIN toplevel_state.windows
    /\ window_op.iter # "none"

(***************************************************************************)
(* Claims about the two Wayland pumps                                      *)
(***************************************************************************)

\* a pump thread that has seen the stop signal sent only moves on towards
\* its exit: from its iteration to its sleep, from its sleep out of the loop
C26_Step ==
    /\ (stop_signal /\ pump_pc' # pump_pc) =>
           \/ pump_pc = "iterate" /\ pump_pc' = "sleep"
           \/ pump_pc = "sleep" /\ pump_pc' = "exited"
    /\ (window_stop /\ window_pc' # window_pc) =>
           \/ window_pc = "iterate" /\ window_pc' \in {"sleep", "panicked"}
           \/ window_pc = "sleep" /\ window_pc' = "exited"

\* C26: once Drop has sent the stop signal, the idle pump and the window
\* pump leave their loop at the next end-of-iteration check and publish at
\* most one further value into their cell; they terminate, in the finite
\* form that a thread which has not ended can always take its next step and
\* that at most two steps (the iteration under way and the check after its
\* sleep) separate it from its end.
C26_PumpCancellation ==
    /\ [][C26_Step]_vars
    /\ [](pump_op.since_stop <= 1 /\ window_op.since_stop <= 1)
    /\ []((stop_signal /\ pump_pc # "exited") =>
               ENABLED (PumpIterate \/ PumpWake))
    /\ []((window_stop /\ window_pc \notin {"exited", "panicked"}) =>
               ENABLED (WindowIterate \/ WindowWake))

\* the idle pump published once after the stop signal and then exited
C26_Witness ==
    /\ stop_signal
    /\ pump_op.since_stop = 1
    /\ pump_pc = "exited"
    /\ window_pc = "exited"

\* a change of the native state does not touch the cell or a poll's result,
\* the cell changes only in a pump iteration that succeeded, and a poll
\* returns what the cell holds
C28_Step ==
    /\ native_idle' # native_idle =>
           /\ current_idle_status' = current_idle_status
           /\ is_idle_ret' = is_idle_ret
    /\ current_idle_status' # current_idle_status =>
           /\ pump_pc = "iterate"
           /\ pump_op'.iter = "ok"
    /\ is_idle_ret' # is_idle_ret =>
           is_idle_ret' = Some(is_idle(current_idle_status))
    /\ Len(wl_pending') > Len(wl_pending) =>
           /\ current_window_data' = current_window_data
           /\ window_ret' = window_ret
    /\ current_window_data' # current_window_data =>
           /\ window_pc = "iterate"
           /\ window_op'.iter = "ok"
    /\ window_ret' # window_ret =>
           window_ret' =
               Some(window_get_active_window_data(current_window_data))

\* after a pump iteration that succeeded and no native change since, a poll
\* returns the native state
C28_Fresh ==
    /\ (pump_op.iter = "ok" /\ pending = << >>) =>
           is_idle(current_idle_status) = Ok(native_idle)
    /\ (window_op.iter = "ok" /\ wl_pending = << >>) =>
           LET id == Unwrap(toplevel_state.current_window_id)
               r == window_get_active_window_data(current_window_data)
           IN  /\ r.kind = "ok"
               /\ r.value.window_title = toplevel_state.windows[id].title
               /\ r.value.app_identifier =
                      Some(toplevel_state.windows[id].app_id)

\* C28: on the pumped backends a change of the native idle or focus state
\* is not visible to a foreground poll before a pump iteration has
\* published it, and a poll made after a successful pump iteration that
\* followed the change returns the new state.
C28_StalenessBound == [][C28_Step]_vars /\ []C28_Fresh

\* the seat went idle, the next iteration succeeded, and a poll returned
\* idle while no further change was pending
C28_Witness ==
    /\ native_idle
    /\ pending = << >>
    /\ pump_op.iter = "ok"
    /\ is_idle_op.op = "is_idle"
    /\ is_idle_ret = Some(Ok(TRUE))

\* an iteration that returns an error leaves the cell as it was and the
\* thread in its loop; an iteration that succeeds, also right after a failed
\* one, stores its value in the cell
C29_Step ==
    /\ (pump_pc = "iterate" /\ pump_pc' # "iterate") =>
           /\ pump_op'.iter = "err" =>
                  /\ current_idle_status' = current_idle_status
                  /\ pump_pc' = "sleep"
           /\ pump_op'.iter = "ok" =>
                  /\ current_idle_status' # None
                  /\ is_idle(current_idle_status') =
                         Ok(idle_state'.is_idle)
    /\ (window_pc = "iterate" /\ window_pc' # "iterate") =>
           /\ window_op'.iter = "err" =>
                  /\ current_window_data' = current_window_data
                  /\ window_pc' = "sleep"
           /\ window_op'.iter = "ok" => current_window_data' # None

\* C29: when an iteration of the idle pump or of the window pump returns an
\* error, the shared cell keeps its value, the thread stays in its loop, and
\* a later successful iteration publishes again.
C29_LogAndContinue == [][C29_Step]_vars

\* the idle pump published idle in the iteration after one that failed with
\* the cell holding active
C29_Witness ==
    /\ pump_op.iter = "ok"
    /\ pump_op.after_err
    /\ current_idle_status # None
    /\ Unwrap(current_idle_status).kind = "Idle"
    /\ pump_pc = "sleep"

(***************************************************************************)
(* Claims about the macOS helper process and its reader thread             *)
(***************************************************************************)

\* how far the reader thread is from its end once the runner was dropped
ReaderRank ==
    CASE reader_pc = "publish" -> 3
      [] reader_pc = "read" -> 2
      [] reader_pc = "check" -> 1
      [] OTHER -> 0

\* after the drop every step of the reader thread brings it nearer its end
C27_Step ==
    (/\ mac_stop # "none"
     /\ child = "killed"
     /\ reader_pc' # reader_pc)
        => ReaderRank' < ReaderRank

\* C27: dropping the SeparateProcess runner sends the stop signal and kills
\* the child; afterwards the reader thread publishes at most one further
\* record and terminates: while it has not ended its next step is enabled,
\* and every step brings it nearer its end (at most three steps).
C27_ReaderTeardown ==
    /\ [][C27_Step]_vars
    /\ [](mac_op.since_stop <= 1)
    /\ []((child = "killed" /\ reader_pc \notin {"exited", "panicked"}) =>
              ENABLED (MacReadLine \/ MacCheck \/ MacPublish))
    /\ [](child = "killed" => mac_stop # "none")

\* the reader published one record after the stop signal and then left its
\* loop on the signal, with the child killed
C27_Witness ==
    /\ child = "killed"
    /\ mac_op.since_stop = 1
    /\ reader_pc = "exited"
    /\ mac_stop = "received"

\* C30: a helper output line that cannot be read or parsed is skipped: the
\* cell keeps its value and the reader thread goes on to the next line.
C30_Step ==
    (/\ reader_pc = "publish"
     /\ reader_pc' # "publish"
     /\ Unwrap(mac_line).kind # "record")
        => /\ current_app_info' = current_app_info
           /\ reader_pc' = "read"
C30_BadLineSkipped == [][C30_Step]_vars

\* C36: an iteration of the window pump whose roundtrip succeeded and that
\* finds the current window in the toplevel table publishes a snapshot with
\* that window's title and app_id, and the thread goes on to its sleep.
C36_Step ==
    (/\ window_pc = "iterate"
     /\ window_pc' # "iterate"
     /\ window_op'.iter # "err"
     /\ toplevel_state'.current_window_id # None
     /\ Unwrap(toplevel_state'.current_window_id)
            \in DOMAIN toplevel_state'.windows)
        => LET w == toplevel_state'.windows[
                        Unwrap(toplevel_state'.current_window_id)]
           IN  /\ window_pc' = "sleep"
               /\ current_window_data' # None
               /\ Unwrap(current_window_data').window_title = w.title
               /\ Unwrap(current_window_data').app_identifier =
                      Some(w.app_id)
C36_PublishesActivated == [][C36_Step]_vars

\* C37: whenever current_window_id is set, it names a handle of the
\* windows table.
C37_PointerNotDangling ==
    toplevel_state.current_window_id # None =>
        Unwrap(toplevel_state.current_window_id)
            \in DOMAIN toplevel_state.windows

\* C31: when WaylandWindowWatcher::new or KdeWindowManager::new has started
\* its window pump thread or its bus-serving task and then fails in
\* IdleWatcherRunner::new, the worker it started is told to stop.
C31_NoWorkerOutlivesFailure ==
    /\ (/\ <<"wayland", "spawn_window_pump">> \in effects
        /\ outcome["wayland"] \in {"err", "panic"})
           => <<"wayland", "stop_window_pump">> \in effects
    /\ (/\ <<"kde", "spawn_task">> \in effects
        /\ <<"kde", "idle_watcher_new">> \in effects
        /\ outcome["kde"] \in {"err", "panic"})
           => <<"kde", "stop_task">> \in effects

\* C33: after KWinScript::load has returned, with success or because the
\* loadScript call or the run call failed, the temporary script file is
\* gone (a failure of the removal itself is left aside).
C33_NoTempFileLeft ==
    (/\ <<"kde", "load">> \in effects
     /\ ~(kwin_script.registered /\ ~kwin_script.is_loaded))
        => ~kwin_script.temp_file

(***************************************************************************)
(* Claims about the locks of the shared cells                              *)
(***************************************************************************)

\* the statement thread t is about to run, if it is inside its body
AtStatement(t) ==
    IF thread_at[t] = 0 THEN None
    ELSE Some(Program(t, fg_call)[thread_at[t]])

C34_Step ==
    x11_op'.tick # x11_op.tick =>
        /\ (x11_op'.ran_on # None /\ Unwrap(x11_op'.ran_on) \notin x11_broken)
               => /\ x11_data' # None
                  /\ Unwrap(x11_data').connection = Unwrap(x11_op'.ran_on)
        /\ x11_connects' # x11_connects =>
               \/ x11_data = None
               \/ ~has_error_is_ok(Unwrap(x11_data), x11_broken)

C34_ConnectionMemoized == [][C34_Step]_vars

(***************************************************************************)
(* Claims about the raw idle-time comparisons                              *)
(***************************************************************************)

\* C35: for an uptime tick count T and a last-input tick L with T >= L,
\* get_idle_time returns min(T - L, u32::MAX): the result never exceeds
\* u32::MAX and the subtraction does not wrap around.
C35_IdleTimeSaturates ==
    (raw_op.op = "get_idle_time" /\ raw_op.ret.kind # "err"
     /\ raw_op.tick_count >= raw_op.dwTime)
        => /\ raw_op.ret.kind = "ok"
           /\ raw_op.ret.value <= u32_MAX
           /\ raw_op.ret.value =
                  IF raw_op.tick_count - raw_op.dwTime <= u32_MAX
                  THEN raw_op.tick_count - raw_op.dwTime
                  ELSE u32_MAX

\* a difference above u32::MAX was saturated
C35_Witness ==
    /\ raw_op.op = "get_idle_time"
    /\ raw_op.tick_count - raw_op.dwTime > u32_MAX
    /\ raw_op.ret = Ok(u32_MAX)

\* C38: for the same time d since the last input and the same idle timeout,
\* the raw-comparison backends (GNOME, X11, Windows is_idle) report idle
\* exactly when the Idle Tracker's polled protocol would, the tie
\* d = idle_timeout included.
C38_SameClassification ==
    raw_op.op \in {"gnome_is_idle", "x11_is_idle", "win_is_idle"} =>
        LET timeout == as_millis(raw_op.idle_timeout)
            polled == get_with_last_input(new(raw_op.d, timeout), raw_op.d,
                                          num_seconds(raw_op.d))
        IN  raw_op.ret = Ok(polled.status.kind = "Idle")

(***************************************************************************)
(* Claims about the push and reactive protocols of the Idle Tracker        *)
(***************************************************************************)

\* C39: with push and reactive calls only, get_reactive never changes the
\* idle flag: the flag, and the status a get_reactive returns, is Idle
\* exactly when the most recent push call was mark_idle, and Active when it
\* was mark_not_idle or when there was no push call since construction,
\* however long ago the last input was.
C39_ReactiveKeepsFlag ==
    ~since_mark.polled =>
        /\ tracker.is_idle = (since_mark.mark = "idle")
        /\ tracker_op.op = "get_reactive" =>
               /\ status # None
               /\ (Unwrap(status).kind = "Idle") = (since_mark.mark = "idle")
               /\ (Unwrap(status).kind = "Active")
                      = (since_mark.mark \in {"not_idle", "none"})

\* a get_reactive, made a whole idle_timeout or more after the last input
\* with no mark_idle in between, returned Active
C39_Witness ==
    /\ tracker_op.op = "get_reactive"
    /\ since_mark.mark = "not_idle"
    /\ ~since_mark.polled
    /\ tracker.idle_timeout > 0
    /\ Unwrap(status).kind = "Active"
    /\ Unwrap(status).last_input_time = tracker_op.now - tracker.idle_timeout

\* C40: with the push and reactive calls of the idle pump, whose now never
\* decreases, last_input_time never moves backwards and never exceeds the
\* latest now, and every Active status a get_reactive(now) returns has
\* now - idle_timeout <= last_input_time <= now.
C40_Step ==
    /\ idle_state'.last_input_time >= idle_state.last_input_time
    /\ (pump_pc = "iterate" /\ pump_pc' = "sleep" /\ pump_op'.iter = "ok"
        /\ Unwrap(current_idle_status').kind = "Active")
           => /\ pump_clock' - idle_state'.idle_timeout
                     <= Unwrap(current_idle_status').last_input_time
              /\ Unwrap(current_idle_status').last_input_time <= pump_clock'

C40_LastInputBounds ==
    /\ [][C40_Step]_vars
    /\ [](idle_state.last_input_time <= pump_clock)

\* an iteration returned Active with last_input_time moved up to
\* now - idle_timeout
C40_Witness ==
    /\ pump_pc = "sleep"
    /\ pump_op.iter = "ok"
    /\ Unwrap(current_idle_status).kind = "Active"
    /\ Unwrap(current_idle_status).last_input_time > 0
    /\ Unwrap(current_idle_status).last_input_time
           = pump_clock - idle_state.idle_timeout
    /\ idle_state.idle_end = None
====
